---------------------------- MODULE Spec2Model ----------------------------
(***************************************************************************)
(* A model of the file-system-control path of the Dokan kernel driver      *)
(* (sys/fscontrol.c): DokanDispatchFileSystemControl, DokanUserFsRequest   *)
(* and DokanOplockRequest.                                                 *)
(*                                                                         *)
(* Every IRP is handled synchronously on the thread that delivered it, so  *)
(* an IRP and its thread are one process of the model.  A process moves    *)
(* from one program point (pc) to the next; a step that waits for an       *)
(* ERESOURCE is enabled only when the resource can be granted.             *)
(***************************************************************************)
EXTENDS Naturals, Integers, Sequences, FiniteSets, TLC

(***************************************************************************)
(* Bounds of the model.                                                    *)
(***************************************************************************)
\* Number of IRPs (threads) in flight at once in the concurrent specification.
NumIrps == 2
\* Largest FCB FileCount (open-handle count) drawn for a Node.
MaxFileCount == 2

Irps == 1 .. NumIrps

(***************************************************************************)
(* Program constants.                                                      *)
(***************************************************************************)
\* sizeof(REQUEST_OPLOCK_INPUT_BUFFER): USHORT, USHORT, ULONG, ULONG.
SizeofRequestOplockInputBuffer == 12
\* sizeof(REQUEST_OPLOCK_OUTPUT_BUFFER): 2 USHORT, 3 ULONG, ACCESS_MASK, USHORT
\* padded to a multiple of 4.
SizeofRequestOplockOutputBuffer == 24

\* The four FSCTLs that ask for an oplock with a code of their own.
LegacyRequestCodes ==
  {"FSCTL_REQUEST_OPLOCK_LEVEL_1", "FSCTL_REQUEST_BATCH_OPLOCK",
   "FSCTL_REQUEST_FILTER_OPLOCK", "FSCTL_REQUEST_OPLOCK_LEVEL_2"}

\* The four FSCTLs that acknowledge a break with a code of their own.
LegacyAckCodes ==
  {"FSCTL_OPLOCK_BREAK_ACKNOWLEDGE", "FSCTL_OPBATCH_ACK_CLOSE_PENDING",
   "FSCTL_OPLOCK_BREAK_NOTIFY", "FSCTL_OPLOCK_BREAK_ACK_NO_2"}

\* Every code DokanUserFsRequest routes to DokanOplockRequest.
OplockCodes == LegacyRequestCodes \cup LegacyAckCodes \cup {"FSCTL_REQUEST_OPLOCK"}

\* Codes answered without looking at any state.
StatelessCodes ==
  {"FSCTL_LOCK_VOLUME", "FSCTL_UNLOCK_VOLUME", "FSCTL_IS_VOLUME_MOUNTED",
   "FSCTL_GET_REPARSE_POINT", "FSCTL_UNKNOWN"}

FsControlCodes ==
  OplockCodes \cup StatelessCodes \cup {"FSCTL_ACTIVATE_KEEPALIVE", "FSCTL_NOTIFY_PATH"}

\* REQUEST_OPLOCK_INPUT_BUFFER.Flags as the set of bits that are on.
InputFlags == SUBSET {"REQUEST_OPLOCK_INPUT_FLAG_REQUEST", "REQUEST_OPLOCK_INPUT_FLAG_ACK"}

\* REQUEST_OPLOCK_INPUT_BUFFER.RequestedOplockLevel as the set of bits that are on.
OplockLevels ==
  SUBSET {"OPLOCK_LEVEL_CACHE_READ", "OPLOCK_LEVEL_CACHE_HANDLE", "OPLOCK_LEVEL_CACHE_WRITE"}

\* FlagOn(Flags, SingleFlag).
FlagOn(flags, flag) == flag \in flags

\* Statuses FsRtlOplockFsctrl can report.
ArbiterStatuses ==
  {"STATUS_SUCCESS", "STATUS_PENDING", "STATUS_OPLOCK_NOT_GRANTED"}

\* Statuses DokanNotifyReportChange0 can report.
NotifyStatuses == {"STATUS_SUCCESS", "STATUS_OBJECT_NAME_INVALID", "STATUS_INSUFFICIENT_RESOURCES"}

(***************************************************************************)
(* Objects: three CCBs (HandleContexts) over two FCBs (Nodes) of one VCB.  *)
(***************************************************************************)
Ccbs == {"A", "B", "C"}
Fcbs == {"f1", "f2"}

\* ccb->Fcb
CcbFcb(c) == IF c = "C" THEN "f2" ELSE "f1"

\* The values a Node's fields can take.
FcbStates ==
  [isDirectory : BOOLEAN, deleteOnClose : BOOLEAN, FileCount : 0 .. MaxFileCount,
   FileLock : {"none", "beyondAllocation", "withinAllocation"}, IsKeepalive : BOOLEAN]

\* A plain file nobody has locked.
PlainFile ==
  [isDirectory |-> FALSE, deleteOnClose |-> FALSE, FileCount |-> 1,
   FileLock |-> "none", IsKeepalive |-> FALSE]

NoIrp == [minor |-> "NONE"]

\* The identity chains a request of the given code can arrive with.  "noX"
\* says link X is NULL or carries the wrong Identifier.Type.  The I/O manager
\* supplies the FileObject of a user FS request and a live Node's Vcb and Dcb
\* back-references are set, so a request reaches a handler only with the
\* broken links that handler tests.
ChainsOf(code) ==
  IF code \in OplockCodes THEN {"ok", "noCcb", "noFcb", "noVcb", "noDcb"}
  ELSE IF code \in StatelessCodes
    THEN {"ok", "noFileObject", "noCcb", "noFcb", "noVcb", "noDcb"}
    ELSE {"ok", "noFileObject", "noCcb", "noFcb"}

Request(minor, code, chain, c, flags, level, inLen, outLen, payload) ==
  [minor |-> minor, code |-> code, chain |-> chain, ccb |-> c, Flags |-> flags,
   RequestedOplockLevel |-> level, InputBufferLength |-> inLen,
   OutputBufferLength |-> outLen, payload |-> payload]

\* A request whose buffers are not read by its handler.
PlainRequest(code, chain, c) ==
  Request("IRP_MN_USER_FS_REQUEST", code, chain, c, {}, {},
          SizeofRequestOplockInputBuffer, SizeofRequestOplockOutputBuffer, "ok")

\* Every request of the sequential specification.  Fields a handler never
\* reads are held at one value.
GenericOplockRequests ==
  { Request("IRP_MN_USER_FS_REQUEST", "FSCTL_REQUEST_OPLOCK", "ok", c, fl, lv, il, ol, "ok") :
      c \in Ccbs, fl \in InputFlags, lv \in OplockLevels,
      il \in {SizeofRequestOplockInputBuffer - 1, SizeofRequestOplockInputBuffer},
      ol \in {SizeofRequestOplockOutputBuffer - 1, SizeofRequestOplockOutputBuffer} }

\* Notifications whose input is shorter than DOKAN_NOTIFY_PATH_INTERMEDIATE.
ShortNotifyRequests ==
  { Request("IRP_MN_USER_FS_REQUEST", "FSCTL_NOTIFY_PATH", chain, c, {}, {},
            SizeofRequestOplockInputBuffer, SizeofRequestOplockOutputBuffer, "short") :
      chain \in ChainsOf("FSCTL_NOTIFY_PATH"), c \in Ccbs }

OtherMinorRequests ==
  { Request("IRP_MN_OTHER", "FSCTL_UNKNOWN", "ok", c, {}, {},
            SizeofRequestOplockInputBuffer, SizeofRequestOplockOutputBuffer, "ok") :
      c \in Ccbs }

AllRequests ==
  UNION { { PlainRequest(code, chain, c) : chain \in ChainsOf(code), c \in Ccbs } :
          code \in FsControlCodes }
    \cup GenericOplockRequests \cup ShortNotifyRequests \cup OtherMinorRequests

VARIABLES
  irp,                  \* irp[i]: the request of IRP i, fixed when it is issued
  pc,                   \* pc[i]: the program point of the thread handling IRP i
  status,               \* status[i]: the NTSTATUS local of the running function
  acquiredVcb,          \* DokanOplockRequest's local acquiredVcb
  acquiredFcb,          \* DokanOplockRequest's local acquiredFcb
  oplockCount,          \* DokanOplockRequest's local oplockCount
  pIrp,                 \* pIrp[i]: TRUE while *pIrp still points at the IRP
  lockLog,              \* lockLog[i]: the lock operations thread i has performed
  vcbResource,          \* the Vcb's ERESOURCE
  fcbResource,          \* fcbResource[f]: FCB f's ERESOURCE
  fcb,                  \* fcb[f]: the fields of Node f
  userModeLocks,        \* dcb->MountOptions & DOKAN_EVENT_FILELOCK_USER_MODE
  checkLockRoutine,     \* DokanFsRtlCheckLockForOplockRequest != NULL (Win8+)
  vcbIsKeepaliveActive, \* vcb->IsKeepaliveActive
  ccbIsKeepaliveActive, \* ccbIsKeepaliveActive[c]: ccb->IsKeepaliveActive
  fsrtl,                \* fsrtl[i]: the calls of FsRtlOplockFsctrl made with IRP i
  notify,               \* notify[i]: the calls of DokanNotifyReportChange0 for IRP i
  cleanups,             \* number of DokanCleanupAllChangeNotificationWaiters calls
  completions,          \* completions[i]: who completed IRP i, with what status
  dcb,                  \* dcb[d]: the fields of MountDevice d that a mount reads
  dcbVcb,               \* dcbVcb[d]: dcb->Vcb, a Volume or NoVcb
  dcbResource,          \* dcbResource[d]: dcb->Resource
  mountEntry,           \* mountEntry[d]: the mount-table entry named after device d
  volDeviceObject,      \* volDeviceObject[i]: the Volume device thread i created
  mountManagerLock,     \* dcb->Global->MountManagerLock
  autoMount,            \* the mount manager's AutoMount state
  autoMountStateBackup, \* DokanMountVolume's local autoMountStateBackup
  mountLog              \* mountLog[i]: the calls DokanMountVolume made for IRP i

vars ==
  <<irp, pc, status, acquiredVcb, acquiredFcb, oplockCount, pIrp, lockLog,
    vcbResource, fcbResource, fcb, userModeLocks, checkLockRoutine,
    vcbIsKeepaliveActive, ccbIsKeepaliveActive, fsrtl, notify, cleanups, completions,
    dcb, dcbVcb, dcbResource, mountEntry, volDeviceObject, mountManagerLock, autoMount,
    autoMountStateBackup, mountLog>>

\* What a handler leaves alone unless it says otherwise.
oplockLocals == <<acquiredVcb, acquiredFcb, oplockCount>>
resources == <<vcbResource, fcbResource>>
nodeState == <<fcb, userModeLocks, checkLockRoutine>>
keepalive == <<vcbIsKeepaliveActive, ccbIsKeepaliveActive>>
collaborators == <<fsrtl, notify, cleanups>>
mountState ==
  <<dcb, dcbVcb, dcbResource, mountEntry, volDeviceObject, mountManagerLock, autoMount,
    autoMountStateBackup, mountLog>>


(***************************************************************************)
(* ERESOURCE read/write locks (DokanVCBLockRO, DokanFCBLockRO,             *)
(* DokanFCBLockRW, DokanFCBUnlock, DokanVCBUnlock).                        *)
(***************************************************************************)
(***************************************************************************)
(* Objects of a mount: MountDevices (DCBs), the mount table, the Volume    *)
(* devices that DokanMountVolume creates.                                  *)
(***************************************************************************)
MountDevices == {"d1", "d2", "d3", "d4"}

\* dcb->VolumeDeviceType
VolumeDeviceTypes == {"FILE_DEVICE_DISK_FILE_SYSTEM", "FILE_DEVICE_NETWORK_FILE_SYSTEM"}

\* The fields of a DCB that DokanMountVolume reads.  MountPoint is kept as
\* what IsMountPointDriveLetter tells apart.
DcbStates ==
  [deletePending : BOOLEAN, VolumeDeviceType : VolumeDeviceTypes,
   FcbGarbageCollectionIntervalMs : {0, 2000}, UseMountManager : BOOLEAN,
   MountPoint : {"driveLetter", "directory"},
   MountOptions : {{}, {"DOKAN_EVENT_FILELOCK_USER_MODE"}}, SessionId : {1}]

\* A disk-type device mounted on a drive letter without the mount manager.
PlainDcb ==
  [deletePending |-> FALSE, VolumeDeviceType |-> "FILE_DEVICE_DISK_FILE_SYSTEM",
   FcbGarbageCollectionIntervalMs |-> 0, UseMountManager |-> FALSE,
   MountPoint |-> "driveLetter", MountOptions |-> {}, SessionId |-> 1]

NoVcb == 0
NoDevice == [Identifier |-> "NONE"]
NoEntry == [SessionId |-> 0]

\* A mount-table entry as the user-mode start request left it: no Volume
\* device yet.
PendingEntry(session) ==
  [SessionId |-> session, VolumeDeviceObject |-> NoVcb, MountOptions |-> {"unset"}]

\* The mount-table entries a device name can have when its mount event
\* arrives: none, one of the device's session, one of another session.
EntryStates == {NoEntry, PendingEntry(1), PendingEntry(2)}

\* Statuses IoCreateDevice and IoCreateDeviceSecure can report.
CreateDeviceStatuses == {"STATUS_SUCCESS", "STATUS_INSUFFICIENT_RESOURCES"}

\* Statuses of the mount manager and of the UNC provider registration.
MountManagerStatuses == {"STATUS_SUCCESS", "STATUS_UNSUCCESSFUL"}

\* NT_SUCCESS(status) for the statuses of the model.
NtSuccess(st) == st \in {"STATUS_SUCCESS", "STATUS_PENDING"}

\* A mount event: IRP_MN_MOUNT_VOLUME for device d.  `extension` says whether
\* the device object carries a DeviceExtension and whether that is a DCB.
MountRequest(d, extension) ==
  [minor |-> "IRP_MN_MOUNT_VOLUME", device |-> d, extension |-> extension]

MountRequests ==
  { MountRequest(d, e) : d \in MountDevices, e \in {"ok", "none", "wrongType"} }

\* One call DokanMountVolume made, with what it reported.
MountCall(call, st) == [call |-> call, status |-> st]

FreeResource == [exclusive |-> 0, shared |-> {}]

\* ExAcquireResourceSharedLite can be granted.
CanLockRO(res) == res.exclusive = 0

\* ExAcquireResourceExclusiveLite can be granted.
CanLockRW(res) == res.exclusive = 0 /\ res.shared = {}

LockRO(res, i) == [res EXCEPT !.shared = @ \cup {i}]

LockRW(res, i) == [res EXCEPT !.exclusive = i]

\* ExReleaseResourceLite by thread i.
Unlock(res, i) ==
  [exclusive |-> IF res.exclusive = i THEN 0 ELSE res.exclusive,
   shared |-> res.shared \ {i}]

\* Thread i holds the resource, in either mode.
Holds(res, i) == res.exclusive = i \/ i \in res.shared

\* One entry of a thread's lock log.
LockEvent(op, res, mode) == [op |-> op, res |-> res, mode |-> mode]

(***************************************************************************)
(* DokanOplockRequest: the parts that only compute.                        *)
(***************************************************************************)
\* FsRtlOplockIsSharedRequest: a level 2 request, or a generic request for
\* the R or RH level.
FsRtlOplockIsSharedRequest(r) ==
  \/ r.code = "FSCTL_REQUEST_OPLOCK_LEVEL_2"
  \/ /\ r.code = "FSCTL_REQUEST_OPLOCK"
     /\ r.RequestedOplockLevel \in
          {{"OPLOCK_LEVEL_CACHE_READ"},
           {"OPLOCK_LEVEL_CACHE_READ", "OPLOCK_LEVEL_CACHE_HANDLE"}}

\* OplockEarlyReturn with && for || in the directory rule.
OplockEarlyReturnAndForOr(r, f) ==
  IF r.chain # "ok" THEN "STATUS_INVALID_PARAMETER"
  ELSE IF /\ r.code = "FSCTL_REQUEST_OPLOCK"
          /\ r.InputBufferLength < SizeofRequestOplockInputBuffer
    THEN "STATUS_BUFFER_TOO_SMALL"
  ELSE IF /\ r.code = "FSCTL_REQUEST_OPLOCK"
          /\ r.OutputBufferLength < SizeofRequestOplockOutputBuffer
    THEN "STATUS_BUFFER_TOO_SMALL"
  ELSE IF /\ f.isDirectory
          /\ (r.code # "FSCTL_REQUEST_OPLOCK" /\ ~FsRtlOplockIsSharedRequest(r))
    THEN "STATUS_INVALID_PARAMETER"
  ELSE "proceed"

\* The returns DokanOplockRequest makes before its try block; "proceed" when
\* it makes none.
OplockEarlyReturn(r, f) ==
  IF r.chain # "ok" THEN "STATUS_INVALID_PARAMETER"
  ELSE IF /\ r.code = "FSCTL_REQUEST_OPLOCK"
          /\ r.InputBufferLength < SizeofRequestOplockInputBuffer
    THEN "STATUS_BUFFER_TOO_SMALL"
  ELSE IF /\ r.code = "FSCTL_REQUEST_OPLOCK"
          /\ r.OutputBufferLength < SizeofRequestOplockOutputBuffer
    THEN "STATUS_BUFFER_TOO_SMALL"
  ELSE IF /\ f.isDirectory
          /\ (r.code # "FSCTL_REQUEST_OPLOCK" \/ ~FsRtlOplockIsSharedRequest(r))
    THEN "STATUS_INVALID_PARAMETER"
  ELSE "proceed"

\* OplockRequestClass with the acknowledge branch taken by every generic
\* request that lacks the request flag.
OplockRequestClassAckByDefault(r) ==
  IF \/ r.code \in LegacyRequestCodes
     \/ /\ r.code = "FSCTL_REQUEST_OPLOCK"
        /\ FlagOn(r.Flags, "REQUEST_OPLOCK_INPUT_FLAG_REQUEST")
    THEN "request"
  ELSE IF \/ r.code \in LegacyAckCodes
          \/ r.code = "FSCTL_REQUEST_OPLOCK"
    THEN "acknowledge"
  ELSE "malformed"

\* The branch of the if / else-if chain that opens the try block.
OplockRequestClass(r) ==
  IF \/ r.code \in LegacyRequestCodes
     \/ /\ r.code = "FSCTL_REQUEST_OPLOCK"
        /\ FlagOn(r.Flags, "REQUEST_OPLOCK_INPUT_FLAG_REQUEST")
    THEN "request"
  ELSE IF \/ r.code \in LegacyAckCodes
          \/ /\ r.code = "FSCTL_REQUEST_OPLOCK"
             /\ FlagOn(r.Flags, "REQUEST_OPLOCK_INPUT_FLAG_ACK")
    THEN "acknowledge"
  ELSE "malformed"

\* FsRtl denies the oplock because of the byte-range locks of the file: on
\* Win8+ DokanFsRtlCheckLockForOplockRequest fails when a lock lies within
\* the allocation size, before that any current or in-progress lock counts.
ByteRangeLockDenies(f, checkRoutine) ==
  IF checkRoutine
    THEN f.FileLock = "withinAllocation"
    ELSE f.FileLock # "none"

\* OplockCount without the byte-range lock test of a shared request.
OplockCountIgnoresLocks(r, f, userMode, checkRoutine) ==
  IF ~userMode
    THEN IF FsRtlOplockIsSharedRequest(r) THEN 0 ELSE f.FileCount
    ELSE 0

\* OplockCount with the test of the mount option inverted.
OplockCountInverted(r, f, userMode, checkRoutine) ==
  IF userMode
    THEN IF FsRtlOplockIsSharedRequest(r)
           THEN IF ~f.isDirectory
                  THEN (IF ByteRangeLockDenies(f, checkRoutine) THEN 1 ELSE 0)
                  ELSE 0
           ELSE f.FileCount
    ELSE 0

\* oplockCount as the request-class branch leaves it.
OplockCount(r, f, userMode, checkRoutine) ==
  IF ~userMode
    THEN IF FsRtlOplockIsSharedRequest(r)
           THEN IF ~f.isDirectory
                  THEN (IF ByteRangeLockDenies(f, checkRoutine) THEN 1 ELSE 0)
                  ELSE 0
           ELSE f.FileCount
    ELSE 0

\* DeletePendingConflict without the handle-caching case of the generic code.
DeletePendingConflictLegacyOnly(r, f) ==
  /\ \/ r.code = "FSCTL_REQUEST_FILTER_OPLOCK"
     \/ r.code = "FSCTL_REQUEST_BATCH_OPLOCK"
  /\ f.deleteOnClose

\* Batch, filter and handle oplock requests fail on a file marked for delete.
DeletePendingConflict(r, f) ==
  /\ \/ r.code = "FSCTL_REQUEST_FILTER_OPLOCK"
     \/ r.code = "FSCTL_REQUEST_BATCH_OPLOCK"
     \/ /\ r.code = "FSCTL_REQUEST_OPLOCK"
        /\ FlagOn(r.RequestedOplockLevel, "OPLOCK_LEVEL_CACHE_HANDLE")
  /\ f.deleteOnClose

(***************************************************************************)
(* DokanUserFsRequest: the parts that only compute.                        *)
(***************************************************************************)
\* StatelessStatus with the reparse query falling through to the default case.
StatelessStatusReparseUnsupported(code) ==
  IF code \in {"FSCTL_LOCK_VOLUME", "FSCTL_UNLOCK_VOLUME", "FSCTL_IS_VOLUME_MOUNTED"}
    THEN "STATUS_SUCCESS"
  ELSE "STATUS_INVALID_DEVICE_REQUEST"

\* The cases of the switch that only set the status.
StatelessStatus(code) ==
  IF code \in {"FSCTL_LOCK_VOLUME", "FSCTL_UNLOCK_VOLUME", "FSCTL_IS_VOLUME_MOUNTED"}
    THEN "STATUS_SUCCESS"
  ELSE IF code = "FSCTL_GET_REPARSE_POINT" THEN "STATUS_NOT_A_REPARSE_POINT"
  ELSE "STATUS_INVALID_DEVICE_REQUEST"

\* ActivateKeepaliveEarlyReturn refusing every activation once the Vcb's
\* flag is set, the handle that set it included.
ActivateKeepaliveEarlyReturnAnyHandle(r, f, vcbActive, ccbActive) ==
  IF r.chain \in {"noFileObject", "noCcb", "noFcb"} THEN "STATUS_INVALID_PARAMETER"
  ELSE IF ~f.IsKeepalive THEN "STATUS_INVALID_PARAMETER"
  ELSE IF vcbActive THEN "STATUS_INVALID_PARAMETER"
  ELSE "proceed"

\* The returns of case FSCTL_ACTIVATE_KEEPALIVE before DokanFCBLockRW;
\* "proceed" when it makes none.
ActivateKeepaliveEarlyReturn(r, f, vcbActive, ccbActive) ==
  IF r.chain \in {"noFileObject", "noCcb", "noFcb"} THEN "STATUS_INVALID_PARAMETER"
  ELSE IF ~f.IsKeepalive THEN "STATUS_INVALID_PARAMETER"
  ELSE IF vcbActive /\ ~ccbActive THEN "STATUS_INVALID_PARAMETER"
  ELSE "proceed"

\* GET_IRP_NOTIFY_PATH_INTERMEDIATE_OR_RETURN: the function returns
\* STATUS_BUFFER_TOO_SMALL when the input buffer cannot hold a
\* DOKAN_NOTIFY_PATH_INTERMEDIATE.
GetIrpNotifyPathIntermediateOrReturn(r) ==
  IF r.payload = "short" THEN "STATUS_BUFFER_TOO_SMALL" ELSE "proceed"

\* NotifyPathEarlyReturn without the test of the Fcb.
NotifyPathEarlyReturnNoFcbTest(r) ==
  IF GetIrpNotifyPathIntermediateOrReturn(r) # "proceed"
    THEN GetIrpNotifyPathIntermediateOrReturn(r)
  ELSE IF r.chain \in {"noFileObject", "noCcb"} THEN "STATUS_INVALID_PARAMETER"
  ELSE "proceed"

\* The returns of case FSCTL_NOTIFY_PATH before DokanFCBLockRO; "proceed"
\* when it makes none.
NotifyPathEarlyReturn(r) ==
  IF GetIrpNotifyPathIntermediateOrReturn(r) # "proceed"
    THEN GetIrpNotifyPathIntermediateOrReturn(r)
  ELSE IF r.chain \in {"noFileObject", "noCcb", "noFcb"} THEN "STATUS_INVALID_PARAMETER"
  ELSE "proceed"

\* DokanCompleteIrpRequest(Irp, Status, 0): what it adds to the completions
\* of the IRP.  A NULL Irp and a pending status complete nothing.
DokanCompleteIrpRequest(ownsIrp, st) ==
  IF ownsIrp /\ st # "STATUS_PENDING"
    THEN <<[by |-> "dispatcher", status |-> st]>>
    ELSE <<>>


(***************************************************************************)
(* Initial states.                                                         *)
(***************************************************************************)
\* The keepalive file of the volume: a plain file flagged IsKeepalive.
KeepaliveFile == [PlainFile EXCEPT !.IsKeepalive = TRUE]

\* The requests the concurrent specification issues: one of every route and
\* of every exit path of the oplock arbitrator, on handles A and B of Node f1
\* and handle C of Node f2.
ConcurrentRequests ==
  { PlainRequest("FSCTL_REQUEST_OPLOCK_LEVEL_1", "ok", "A"),
    PlainRequest("FSCTL_OPLOCK_BREAK_ACKNOWLEDGE", "ok", "B"),
    PlainRequest("FSCTL_REQUEST_BATCH_OPLOCK", "ok", "C"),
    Request("IRP_MN_USER_FS_REQUEST", "FSCTL_REQUEST_OPLOCK", "ok", "A", {}, {"OPLOCK_LEVEL_CACHE_READ"},
            SizeofRequestOplockInputBuffer, SizeofRequestOplockOutputBuffer, "ok"),
    Request("IRP_MN_USER_FS_REQUEST", "FSCTL_REQUEST_OPLOCK", "ok", "B",
            {"REQUEST_OPLOCK_INPUT_FLAG_REQUEST"}, {"OPLOCK_LEVEL_CACHE_READ"},
            SizeofRequestOplockInputBuffer, SizeofRequestOplockOutputBuffer, "ok"),
    PlainRequest("FSCTL_ACTIVATE_KEEPALIVE", "ok", "A"),
    PlainRequest("FSCTL_ACTIVATE_KEEPALIVE", "ok", "B"),
    PlainRequest("FSCTL_NOTIFY_PATH", "ok", "A"),
    PlainRequest("FSCTL_LOCK_VOLUME", "ok", "C"),
    Request("IRP_MN_OTHER", "FSCTL_UNKNOWN", "ok", "C", {}, {},
            SizeofRequestOplockInputBuffer, SizeofRequestOplockOutputBuffer, "ok") }

\* What does not depend on the requests issued.
InitCommon ==
  /\ pc = [i \in Irps |-> IF irp[i] = NoIrp THEN "absent" ELSE "dispatch"]
  /\ status = [i \in Irps |-> "STATUS_INVALID_DEVICE_REQUEST"]
  /\ acquiredVcb = [i \in Irps |-> FALSE]
  /\ acquiredFcb = [i \in Irps |-> FALSE]
  /\ oplockCount = [i \in Irps |-> 0]
  /\ pIrp = [i \in Irps |-> TRUE]
  /\ lockLog = [i \in Irps |-> <<>>]
  /\ vcbResource = FreeResource
  /\ fcbResource = [f \in Fcbs |-> FreeResource]
  /\ vcbIsKeepaliveActive = FALSE
  /\ ccbIsKeepaliveActive = [c \in Ccbs |-> FALSE]
  /\ fsrtl = [i \in Irps |-> <<>>]
  /\ notify = [i \in Irps |-> <<>>]
  /\ cleanups = 0
  /\ completions = [i \in Irps |-> <<>>]
  /\ dcbVcb = [d \in MountDevices |-> NoVcb]
  /\ dcbResource = [d \in MountDevices |-> FreeResource]
  /\ volDeviceObject = [i \in Irps |-> NoDevice]
  /\ mountManagerLock = FreeResource
  /\ autoMountStateBackup = [i \in Irps |-> TRUE]
  /\ mountLog = [i \in Irps |-> <<>>]

\* No mount event is under way: the devices of the mount table are idle.
InitNoMount ==
  /\ dcb = [d \in MountDevices |-> PlainDcb]
  /\ mountEntry = [d \in MountDevices |-> NoEntry]
  /\ autoMount = TRUE

\* NumIrps requests in flight at once on a volume whose Node f1 is the
\* keepalive file and whose Node f2 is a file marked for delete.
Init ==
  /\ irp \in [Irps -> ConcurrentRequests]
  /\ fcb = [f \in Fcbs |-> IF f = "f1" THEN KeepaliveFile
                                       ELSE [PlainFile EXCEPT !.deleteOnClose = TRUE]]
  /\ userModeLocks = FALSE
  /\ checkLockRoutine = TRUE
  /\ InitCommon
  /\ InitNoMount

\* One request, drawn from all of them, on a Node in any state (the Node the
\* request does not name stays a plain file).
InitOne ==
  /\ irp \in { [i \in Irps |-> IF i = 1 THEN r ELSE NoIrp] : r \in AllRequests }
  /\ fcb \in { [f \in Fcbs |-> IF f = CcbFcb(irp[1].ccb) THEN s ELSE PlainFile] :
               s \in FcbStates }
  /\ userModeLocks \in BOOLEAN
  /\ checkLockRoutine \in BOOLEAN
  /\ InitCommon
  /\ InitNoMount

\* A structural change of the volume by the thread of another request
\* (creating or freeing the Node behind handle c).
StructuralChange(c) == [minor |-> "VCB_STRUCTURAL_CHANGE", ccb |-> c]

\* The threads of the lock specification: oplock requests of both classes,
\* with a code of their own and with the generic code, on the two Nodes;
\* a keepalive activation; a path notification; a structural change.
LockRequests ==
  << PlainRequest("FSCTL_REQUEST_OPLOCK_LEVEL_1", "ok", "A"),
     Request("IRP_MN_USER_FS_REQUEST", "FSCTL_REQUEST_OPLOCK", "ok", "B",
             {"REQUEST_OPLOCK_INPUT_FLAG_REQUEST", "REQUEST_OPLOCK_INPUT_FLAG_ACK"},
             {"OPLOCK_LEVEL_CACHE_READ"},
             SizeofRequestOplockInputBuffer, SizeofRequestOplockOutputBuffer, "ok"),
     PlainRequest("FSCTL_REQUEST_BATCH_OPLOCK", "ok", "C"),
     PlainRequest("FSCTL_OPLOCK_BREAK_ACKNOWLEDGE", "ok", "B"),
     Request("IRP_MN_USER_FS_REQUEST", "FSCTL_REQUEST_OPLOCK", "ok", "A",
             {"REQUEST_OPLOCK_INPUT_FLAG_ACK"}, {"OPLOCK_LEVEL_CACHE_READ"},
             SizeofRequestOplockInputBuffer, SizeofRequestOplockOutputBuffer, "ok"),
     PlainRequest("FSCTL_ACTIVATE_KEEPALIVE", "ok", "A"),
     PlainRequest("FSCTL_NOTIFY_PATH", "ok", "B"),
     StructuralChange("A") >>

\* NumIrps threads at once on a volume whose Node f1 is the keepalive file.
\* The threads are interchangeable, so the requests are handed to them in
\* the order of the list.
InitLock ==
  /\ irp \in { [i \in Irps |-> LockRequests[k[i]]] :
                k \in { g \in [Irps -> 1 .. Len(LockRequests)] :
                          \A i \in Irps \ {NumIrps} : g[i] <= g[i + 1] } }
  /\ fcb = [f \in Fcbs |-> IF f = "f1" THEN KeepaliveFile ELSE PlainFile]
  /\ userModeLocks = FALSE
  /\ checkLockRoutine = TRUE
  /\ InitCommon
  /\ InitNoMount

\* The volume the control requests address is idle while a mount runs.
InitNoControlRequest ==
  /\ fcb = [f \in Fcbs |-> PlainFile]
  /\ userModeLocks = FALSE
  /\ checkLockRoutine = TRUE

\* The devices of the concurrent mounts: d1, d2 and d4 are mounted on a
\* directory through the mount manager (d4 is a network device), d3 is being
\* removed.
ConcurrentDcbs ==
  [d \in MountDevices |->
     CASE d = "d1" -> [PlainDcb EXCEPT !.UseMountManager = TRUE, !.MountPoint = "directory",
                                       !.FcbGarbageCollectionIntervalMs = 2000]
       [] d = "d2" -> [PlainDcb EXCEPT !.UseMountManager = TRUE, !.MountPoint = "directory",
                                       !.MountOptions = {"DOKAN_EVENT_FILELOCK_USER_MODE"}]
       [] d = "d3" -> [PlainDcb EXCEPT !.deletePending = TRUE]
       [] OTHER -> [PlainDcb EXCEPT !.UseMountManager = TRUE, !.MountPoint = "directory",
                                    !.VolumeDeviceType = "FILE_DEVICE_NETWORK_FILE_SYSTEM"]]

\* The mount events the concurrent specification delivers.
ConcurrentMounts == { MountRequest(d, "ok") : d \in MountDevices }

\* The place of a device in the list of MountDevices.
DeviceIndex(d) == CASE d = "d1" -> 1 [] d = "d2" -> 2 [] d = "d3" -> 3 [] OTHER -> 4

\* NumIrps mount events in flight at once.  A device receives one mount
\* event; a duplicate or late event is one for a device that is being
\* removed.  The threads are interchangeable, so the events are handed to
\* them in the order of their devices.
InitMount ==
  /\ irp \in { f \in [Irps -> ConcurrentMounts] :
                \A i \in Irps \ {NumIrps} :
                  \/ DeviceIndex(f[i].device) < DeviceIndex(f[i + 1].device)
                  \/ /\ f[i].device = f[i + 1].device
                     /\ ConcurrentDcbs[f[i].device].deletePending }
  /\ dcb = ConcurrentDcbs
  /\ mountEntry = [d \in MountDevices |-> PendingEntry(1)]
  /\ autoMount \in BOOLEAN
  /\ InitNoControlRequest
  /\ InitCommon

\* One mount event for device d1, in any configuration and with any
\* mount-table entry.
InitMountOne ==
  /\ irp \in { [i \in Irps |-> IF i = 1 THEN MountRequest("d1", e) ELSE NoIrp] :
                e \in {"ok", "none", "wrongType"} }
  /\ dcb \in { [d \in MountDevices |-> IF d = "d1" THEN s ELSE PlainDcb] : s \in DcbStates }
  /\ mountEntry \in { [d \in MountDevices |-> IF d = "d1" THEN e ELSE NoEntry] :
                       e \in EntryStates }
  /\ autoMount \in BOOLEAN
  /\ InitNoControlRequest
  /\ InitCommon

(***************************************************************************)
(* DokanDispatchFileSystemControl and DokanUserFsRequest.                  *)
(***************************************************************************)
\* The Node of IRP i: fileObject->FsContext2->Fcb.
FcbOf(i) == CcbFcb(irp[i].ccb)

\* The minor functions DokanDispatchFileSystemControl has a case for.
DispatchedMinors == {"IRP_MN_MOUNT_VOLUME", "IRP_MN_USER_FS_REQUEST"}

\* The default branch: an IRP of any other minor function; the dispatcher
\* keeps its initial status.  (A structural change is the thread of another
\* dispatcher, not an IRP of this one.)
DispatchUnsupportedMinor(i) ==
  /\ pc[i] = "dispatch"
  /\ irp[i].minor \notin DispatchedMinors \cup {"VCB_STRUCTURAL_CHANGE"}
  /\ status' = [status EXCEPT ![i] = "STATUS_INVALID_DEVICE_REQUEST"]
  /\ pc' = [pc EXCEPT ![i] = "complete"]
  /\ UNCHANGED <<irp, mountState, oplockLocals, pIrp, lockLog, resources, nodeState, keepalive,
                 collaborators, completions>>

\* The lock-volume, unlock-volume, is-mounted, reparse and default cases.
UserFsStateless(i) ==
  /\ pc[i] = "dispatch"
  /\ irp[i].minor = "IRP_MN_USER_FS_REQUEST"
  /\ irp[i].code \in StatelessCodes
  /\ status' = [status EXCEPT ![i] = StatelessStatus(irp[i].code)]
  /\ pc' = [pc EXCEPT ![i] = "complete"]
  /\ UNCHANGED <<irp, mountState, oplockLocals, pIrp, lockLog, resources, nodeState, keepalive,
                 collaborators, completions>>

\* The finally block of the dispatcher: DokanCompleteIrpRequest(Irp, status, 0).
DispatchComplete(i) ==
  /\ pc[i] = "complete"
  /\ completions' =
       [completions EXCEPT ![i] = @ \o DokanCompleteIrpRequest(pIrp[i], status[i])]
  /\ pc' = [pc EXCEPT ![i] = "done"]
  /\ UNCHANGED <<irp, mountState, status, oplockLocals, pIrp, lockLog, resources, nodeState,
                 keepalive, collaborators>>

(***************************************************************************)
(* DokanOplockRequest.                                                     *)
(***************************************************************************)
\* Entry to DokanOplockRequest up to the try block: the identity chain, the
\* buffer lengths of the generic code, the directory rule.
OplockEnter(i) ==
  /\ pc[i] = "dispatch"
  /\ irp[i].minor = "IRP_MN_USER_FS_REQUEST"
  /\ irp[i].code \in OplockCodes
  /\ LET early == OplockEarlyReturn(irp[i], fcb[FcbOf(i)]) IN
       IF early = "proceed"
         THEN /\ status' = [status EXCEPT ![i] = "STATUS_SUCCESS"]
              /\ pc' = [pc EXCEPT ![i] = "op_try"]
         ELSE /\ status' = [status EXCEPT ![i] = early]
              /\ pc' = [pc EXCEPT ![i] = "complete"]
  /\ UNCHANGED <<irp, mountState, oplockLocals, pIrp, lockLog, resources, nodeState, keepalive,
                 collaborators, completions>>

\* Request class: DokanVCBLockRO(fcb->Vcb); acquiredVcb = TRUE.
OplockLockVcb(i) ==
  /\ pc[i] = "op_try"
  /\ OplockRequestClass(irp[i]) = "request"
  /\ CanLockRO(vcbResource)
  /\ vcbResource' = LockRO(vcbResource, i)
  /\ acquiredVcb' = [acquiredVcb EXCEPT ![i] = TRUE]
  /\ lockLog' = [lockLog EXCEPT ![i] = Append(@, LockEvent("acquire", "Vcb", "shared"))]
  /\ pc' = [pc EXCEPT ![i] = "op_lockFcb"]
  /\ UNCHANGED <<irp, mountState, status, acquiredFcb, oplockCount, pIrp, fcbResource, nodeState,
                 keepalive, collaborators, completions>>

\* OplockLockFcb taking the Fcb shared.
OplockLockFcbShared(i) ==
  /\ pc[i] = "op_lockFcb"
  /\ CanLockRO(fcbResource[FcbOf(i)])
  /\ fcbResource' = [fcbResource EXCEPT ![FcbOf(i)] = LockRO(@, i)]
  /\ acquiredFcb' = [acquiredFcb EXCEPT ![i] = TRUE]
  /\ lockLog' = [lockLog EXCEPT ![i] = Append(@, LockEvent("acquire", "Fcb", "exclusive"))]
  /\ oplockCount' =
       [oplockCount EXCEPT ![i] =
          OplockCount(irp[i], fcb[FcbOf(i)], userModeLocks, checkLockRoutine)]
  /\ pc' = [pc EXCEPT ![i] = "op_body"]
  /\ UNCHANGED <<irp, mountState, status, acquiredVcb, pIrp, vcbResource, nodeState, keepalive,
                 collaborators, completions>>

\* Request class: DokanFCBLockRW(fcb); acquiredFcb = TRUE; then oplockCount.
OplockLockFcb(i) ==
  /\ pc[i] = "op_lockFcb"
  /\ CanLockRW(fcbResource[FcbOf(i)])
  /\ fcbResource' = [fcbResource EXCEPT ![FcbOf(i)] = LockRW(@, i)]
  /\ acquiredFcb' = [acquiredFcb EXCEPT ![i] = TRUE]
  /\ lockLog' = [lockLog EXCEPT ![i] = Append(@, LockEvent("acquire", "Fcb", "exclusive"))]
  /\ oplockCount' =
       [oplockCount EXCEPT ![i] =
          OplockCount(irp[i], fcb[FcbOf(i)], userModeLocks, checkLockRoutine)]
  /\ pc' = [pc EXCEPT ![i] = "op_body"]
  /\ UNCHANGED <<irp, mountState, status, acquiredVcb, pIrp, vcbResource, nodeState, keepalive,
                 collaborators, completions>>

\* OplockAckLockFcb taking the Fcb exclusively.
OplockAckLockFcbExclusive(i) ==
  /\ pc[i] = "op_try"
  /\ OplockRequestClass(irp[i]) = "acknowledge"
  /\ CanLockRW(fcbResource[FcbOf(i)])
  /\ fcbResource' = [fcbResource EXCEPT ![FcbOf(i)] = LockRW(@, i)]
  /\ acquiredFcb' = [acquiredFcb EXCEPT ![i] = TRUE]
  /\ lockLog' = [lockLog EXCEPT ![i] = Append(@, LockEvent("acquire", "Fcb", "exclusive"))]
  /\ pc' = [pc EXCEPT ![i] = "op_body"]
  /\ UNCHANGED <<irp, mountState, status, acquiredVcb, oplockCount, pIrp, vcbResource, nodeState,
                 keepalive, collaborators, completions>>

\* Acknowledge class: DokanFCBLockRO(fcb); acquiredFcb = TRUE.
OplockAckLockFcb(i) ==
  /\ pc[i] = "op_try"
  /\ OplockRequestClass(irp[i]) = "acknowledge"
  /\ CanLockRO(fcbResource[FcbOf(i)])
  /\ fcbResource' = [fcbResource EXCEPT ![FcbOf(i)] = LockRO(@, i)]
  /\ acquiredFcb' = [acquiredFcb EXCEPT ![i] = TRUE]
  /\ lockLog' = [lockLog EXCEPT ![i] = Append(@, LockEvent("acquire", "Fcb", "shared"))]
  /\ pc' = [pc EXCEPT ![i] = "op_body"]
  /\ UNCHANGED <<irp, mountState, status, acquiredVcb, oplockCount, pIrp, vcbResource, nodeState,
                 keepalive, collaborators, completions>>

\* Neither class: status = STATUS_INVALID_PARAMETER; __leave.
OplockMalformed(i) ==
  /\ pc[i] = "op_try"
  /\ OplockRequestClass(irp[i]) = "malformed"
  /\ status' = [status EXCEPT ![i] = "STATUS_INVALID_PARAMETER"]
  /\ pc' = [pc EXCEPT ![i] = "op_finally"]
  /\ UNCHANGED <<irp, mountState, oplockLocals, pIrp, lockLog, resources, nodeState, keepalive,
                 collaborators, completions>>

\* The file is marked for delete: status = STATUS_DELETE_PENDING; __leave.
OplockDeletePending(i) ==
  /\ pc[i] = "op_body"
  /\ DeletePendingConflict(irp[i], fcb[FcbOf(i)])
  /\ status' = [status EXCEPT ![i] = "STATUS_DELETE_PENDING"]
  /\ pc' = [pc EXCEPT ![i] = "op_finally"]
  /\ UNCHANGED <<irp, mountState, oplockLocals, pIrp, lockLog, resources, nodeState, keepalive,
                 collaborators, completions>>

\* OplockFsctrl without *pIrp = NULL.
OplockFsctrlKeepsIrp(i) ==
  /\ pc[i] = "op_body"
  /\ ~DeletePendingConflict(irp[i], fcb[FcbOf(i)])
  /\ \E s \in ArbiterStatuses :
       /\ fsrtl' = [fsrtl EXCEPT ![i] = Append(@, [hint |-> oplockCount[i], status |-> s])]
       /\ status' = [status EXCEPT ![i] = s]
       /\ completions' =
            [completions EXCEPT ![i] =
               IF s = "STATUS_PENDING" THEN @ ELSE Append(@, [by |-> "arbiter", status |-> s])]
  /\ pc' = [pc EXCEPT ![i] = "op_finally"]
  /\ UNCHANGED <<irp, mountState, oplockLocals, pIrp, lockLog, resources, nodeState, keepalive, notify,
                 cleanups>>

\* OplockFsctrl reporting a refusal of the arbiter as its own
\* STATUS_INVALID_PARAMETER.
OplockFsctrlMapsRefusal(i) ==
  /\ pc[i] = "op_body"
  /\ ~DeletePendingConflict(irp[i], fcb[FcbOf(i)])
  /\ \E s \in ArbiterStatuses :
       /\ fsrtl' = [fsrtl EXCEPT ![i] = Append(@, [hint |-> oplockCount[i], status |-> s])]
       /\ status' = [status EXCEPT ![i] =
                       IF s = "STATUS_OPLOCK_NOT_GRANTED" THEN "STATUS_INVALID_PARAMETER" ELSE s]
       /\ completions' =
            [completions EXCEPT ![i] =
               IF s = "STATUS_PENDING" THEN @ ELSE Append(@, [by |-> "arbiter", status |-> s])]
  /\ pIrp' = [pIrp EXCEPT ![i] = FALSE]
  /\ pc' = [pc EXCEPT ![i] = "op_finally"]
  /\ UNCHANGED <<irp, mountState, oplockLocals, lockLog, resources, nodeState, keepalive, notify,
                 cleanups>>

\* status = FsRtlOplockFsctrl(oplock, irp, oplockCount); *pIrp = NULL.  The
\* arbiter owns the IRP from here: it completes it before it returns, unless
\* it returns STATUS_PENDING and keeps it.
OplockFsctrl(i) ==
  /\ pc[i] = "op_body"
  /\ ~DeletePendingConflict(irp[i], fcb[FcbOf(i)])
  /\ \E s \in ArbiterStatuses :
       /\ fsrtl' = [fsrtl EXCEPT ![i] = Append(@, [hint |-> oplockCount[i], status |-> s])]
       /\ status' = [status EXCEPT ![i] = s]
       /\ completions' =
            [completions EXCEPT ![i] =
               IF s = "STATUS_PENDING" THEN @ ELSE Append(@, [by |-> "arbiter", status |-> s])]
  /\ pIrp' = [pIrp EXCEPT ![i] = FALSE]
  /\ pc' = [pc EXCEPT ![i] = "op_finally"]
  /\ UNCHANGED <<irp, mountState, oplockLocals, lockLog, resources, nodeState, keepalive, notify,
                 cleanups>>

\* The oplock package completes an IRP it kept (the oplock breaks, the
\* handle closes).
ArbiterCompletesPending(i) ==
  /\ fsrtl[i] # <<>>
  /\ fsrtl[i][Len(fsrtl[i])].status = "STATUS_PENDING"
  /\ \A k \in 1 .. Len(completions[i]) : completions[i][k].by # "arbiter"
  /\ completions' = [completions EXCEPT ![i] = Append(@, [by |-> "arbiter", status |-> "STATUS_SUCCESS"])]
  /\ UNCHANGED <<irp, mountState, pc, status, oplockLocals, pIrp, lockLog, resources, nodeState,
                 keepalive, collaborators>>

\* OplockUnlockFcb with the test of the wrong flag: if (acquiredVcb)
\* DokanFCBUnlock(fcb).
OplockUnlockFcbTestsVcb(i) ==
  /\ pc[i] = "op_finally"
  /\ IF acquiredVcb[i]
       THEN /\ fcbResource' = [fcbResource EXCEPT ![FcbOf(i)] = Unlock(@, i)]
            /\ lockLog' = [lockLog EXCEPT ![i] = Append(@, LockEvent("release", "Fcb", "any"))]
       ELSE UNCHANGED <<fcbResource, lockLog>>
  /\ pc' = [pc EXCEPT ![i] = "op_unlockVcb"]
  /\ UNCHANGED <<irp, mountState, status, oplockLocals, pIrp, vcbResource, nodeState, keepalive,
                 collaborators, completions>>

\* finally: if (acquiredFcb) DokanFCBUnlock(fcb).
OplockUnlockFcb(i) ==
  /\ pc[i] = "op_finally"
  /\ IF acquiredFcb[i]
       THEN /\ fcbResource' = [fcbResource EXCEPT ![FcbOf(i)] = Unlock(@, i)]
            /\ lockLog' = [lockLog EXCEPT ![i] = Append(@, LockEvent("release", "Fcb", "any"))]
       ELSE UNCHANGED <<fcbResource, lockLog>>
  /\ pc' = [pc EXCEPT ![i] = "op_unlockVcb"]
  /\ UNCHANGED <<irp, mountState, status, oplockLocals, pIrp, vcbResource, nodeState, keepalive,
                 collaborators, completions>>

\* finally: if (acquiredVcb) DokanVCBUnlock(fcb->Vcb); return status.
OplockUnlockVcb(i) ==
  /\ pc[i] = "op_unlockVcb"
  /\ IF acquiredVcb[i]
       THEN /\ vcbResource' = Unlock(vcbResource, i)
            /\ lockLog' = [lockLog EXCEPT ![i] = Append(@, LockEvent("release", "Vcb", "any"))]
       ELSE UNCHANGED <<vcbResource, lockLog>>
  /\ pc' = [pc EXCEPT ![i] = "complete"]
  /\ UNCHANGED <<irp, mountState, status, oplockLocals, pIrp, fcbResource, nodeState, keepalive,
                 collaborators, completions>>


(***************************************************************************)
(* case FSCTL_ACTIVATE_KEEPALIVE.                                          *)
(***************************************************************************)
\* The checks before the lock; the Vcb's and the Ccb's flags are read here,
\* with no lock held.
ActivateKeepaliveCheck(i) ==
  /\ pc[i] = "dispatch"
  /\ irp[i].minor = "IRP_MN_USER_FS_REQUEST"
  /\ irp[i].code = "FSCTL_ACTIVATE_KEEPALIVE"
  /\ LET early == ActivateKeepaliveEarlyReturn(irp[i], fcb[FcbOf(i)], vcbIsKeepaliveActive,
                                               ccbIsKeepaliveActive[irp[i].ccb]) IN
       IF early = "proceed"
         THEN /\ pc' = [pc EXCEPT ![i] = "ka_lock"]
              /\ UNCHANGED status
         ELSE /\ status' = [status EXCEPT ![i] = early]
              /\ pc' = [pc EXCEPT ![i] = "complete"]
  /\ UNCHANGED <<irp, mountState, oplockLocals, pIrp, lockLog, resources, nodeState, keepalive,
                 collaborators, completions>>

\* ActivateKeepaliveLock taking the Vcb inside the Fcb, to guard the write of
\* the Vcb's flag: DokanFCBLockRW(fcb); DokanVCBLockRO(fcb->Vcb).
ActivateKeepaliveLockThenVcb(i) ==
  /\ pc[i] = "ka_lock"
  /\ CanLockRW(fcbResource[FcbOf(i)])
  /\ CanLockRO(vcbResource)
  /\ fcbResource' = [fcbResource EXCEPT ![FcbOf(i)] = LockRW(@, i)]
  /\ vcbResource' = LockRO(vcbResource, i)
  /\ lockLog' = [lockLog EXCEPT ![i] = @ \o <<LockEvent("acquire", "Fcb", "exclusive"),
                                               LockEvent("acquire", "Vcb", "shared")>>]
  /\ pc' = [pc EXCEPT ![i] = "ka_setCcb"]
  /\ UNCHANGED <<irp, mountState, status, oplockLocals, pIrp, nodeState, keepalive,
                 collaborators, completions>>

\* DokanFCBLockRW(fcb).
ActivateKeepaliveLock(i) ==
  /\ pc[i] = "ka_lock"
  /\ CanLockRW(fcbResource[FcbOf(i)])
  /\ fcbResource' = [fcbResource EXCEPT ![FcbOf(i)] = LockRW(@, i)]
  /\ lockLog' = [lockLog EXCEPT ![i] = Append(@, LockEvent("acquire", "Fcb", "exclusive"))]
  /\ pc' = [pc EXCEPT ![i] = "ka_setCcb"]
  /\ UNCHANGED <<irp, mountState, status, oplockLocals, pIrp, vcbResource, nodeState, keepalive,
                 collaborators, completions>>

\* ActivateKeepaliveSetCcb taking the Vcb for the write, inside the Fcb:
\* DokanVCBLockRW(vcb); ccb->IsKeepaliveActive = TRUE; DokanVCBUnlock(vcb).
ActivateKeepaliveSetCcbUnderVcb(i) ==
  /\ pc[i] = "ka_setCcb"
  /\ CanLockRW(vcbResource)
  /\ ccbIsKeepaliveActive' = [ccbIsKeepaliveActive EXCEPT ![irp[i].ccb] = TRUE]
  /\ lockLog' = [lockLog EXCEPT ![i] = @ \o <<LockEvent("acquire", "Vcb", "exclusive"),
                                               LockEvent("release", "Vcb", "any")>>]
  /\ pc' = [pc EXCEPT ![i] = "ka_setVcb"]
  /\ UNCHANGED <<irp, mountState, status, oplockLocals, pIrp, resources, nodeState,
                 vcbIsKeepaliveActive, collaborators, completions>>

\* ccb->IsKeepaliveActive = TRUE.
ActivateKeepaliveSetCcb(i) ==
  /\ pc[i] = "ka_setCcb"
  /\ ccbIsKeepaliveActive' = [ccbIsKeepaliveActive EXCEPT ![irp[i].ccb] = TRUE]
  /\ pc' = [pc EXCEPT ![i] = "ka_setVcb"]
  /\ UNCHANGED <<irp, mountState, status, oplockLocals, pIrp, lockLog, resources, nodeState,
                 vcbIsKeepaliveActive, collaborators, completions>>

\* fcb->Vcb->IsKeepaliveActive = TRUE.
ActivateKeepaliveSetVcb(i) ==
  /\ pc[i] = "ka_setVcb"
  /\ vcbIsKeepaliveActive' = TRUE
  /\ pc' = [pc EXCEPT ![i] = "ka_unlock"]
  /\ UNCHANGED <<irp, mountState, status, oplockLocals, pIrp, lockLog, resources, nodeState,
                 ccbIsKeepaliveActive, collaborators, completions>>

\* DokanFCBUnlock(fcb); status = STATUS_SUCCESS.
ActivateKeepaliveUnlock(i) ==
  /\ pc[i] = "ka_unlock"
  /\ fcbResource' = [fcbResource EXCEPT ![FcbOf(i)] = Unlock(@, i)]
  /\ lockLog' = [lockLog EXCEPT ![i] = Append(@, LockEvent("release", "Fcb", "any"))]
  /\ status' = [status EXCEPT ![i] = "STATUS_SUCCESS"]
  /\ pc' = [pc EXCEPT ![i] = "complete"]
  /\ UNCHANGED <<irp, mountState, oplockLocals, pIrp, vcbResource, nodeState, keepalive,
                 collaborators, completions>>

(***************************************************************************)
(* case FSCTL_NOTIFY_PATH.                                                 *)
(***************************************************************************)
\* NotifyPathCheck without the test of the input length.
NotifyPathCheckSkipsLength(i) ==
  /\ pc[i] = "dispatch"
  /\ irp[i].minor = "IRP_MN_USER_FS_REQUEST"
  /\ irp[i].code = "FSCTL_NOTIFY_PATH"
  /\ IF irp[i].chain \in {"noFileObject", "noCcb", "noFcb"}
       THEN /\ status' = [status EXCEPT ![i] = "STATUS_INVALID_PARAMETER"]
            /\ pc' = [pc EXCEPT ![i] = "complete"]
       ELSE /\ pc' = [pc EXCEPT ![i] = "np_lock"]
            /\ UNCHANGED status
  /\ UNCHANGED <<irp, mountState, oplockLocals, pIrp, lockLog, resources, nodeState, keepalive,
                 collaborators, completions>>

\* The payload and identity checks before the lock.
NotifyPathCheck(i) ==
  /\ pc[i] = "dispatch"
  /\ irp[i].minor = "IRP_MN_USER_FS_REQUEST"
  /\ irp[i].code = "FSCTL_NOTIFY_PATH"
  /\ LET early == NotifyPathEarlyReturn(irp[i]) IN
       IF early = "proceed"
         THEN /\ pc' = [pc EXCEPT ![i] = "np_lock"]
              /\ UNCHANGED status
         ELSE /\ status' = [status EXCEPT ![i] = early]
              /\ pc' = [pc EXCEPT ![i] = "complete"]
  /\ UNCHANGED <<irp, mountState, oplockLocals, pIrp, lockLog, resources, nodeState, keepalive,
                 collaborators, completions>>

\* DokanFCBLockRO(fcb).
NotifyPathLock(i) ==
  /\ pc[i] = "np_lock"
  /\ CanLockRO(fcbResource[FcbOf(i)])
  /\ fcbResource' = [fcbResource EXCEPT ![FcbOf(i)] = LockRO(@, i)]
  /\ lockLog' = [lockLog EXCEPT ![i] = Append(@, LockEvent("acquire", "Fcb", "shared"))]
  /\ pc' = [pc EXCEPT ![i] = "np_report"]
  /\ UNCHANGED <<irp, mountState, status, oplockLocals, pIrp, vcbResource, nodeState, keepalive,
                 collaborators, completions>>

\* status = DokanNotifyReportChange0(fcb, path, CompletionFilter, Action).
NotifyPathReport(i) ==
  /\ pc[i] = "np_report"
  /\ \E s \in NotifyStatuses :
       /\ notify' = [notify EXCEPT ![i] = Append(@, [status |-> s,
                                                     locked |-> Holds(fcbResource[FcbOf(i)], i)])]
       /\ status' = [status EXCEPT ![i] = s]
  /\ pc' = [pc EXCEPT ![i] = "np_unlock"]
  /\ UNCHANGED <<irp, mountState, oplockLocals, pIrp, lockLog, resources, nodeState, keepalive,
                 fsrtl, cleanups, completions>>

\* NotifyPathUnlock cleaning the waiters up on every failure of the registry.
NotifyPathUnlockCleansOnFailure(i) ==
  /\ pc[i] = "np_unlock"
  /\ fcbResource' = [fcbResource EXCEPT ![FcbOf(i)] = Unlock(@, i)]
  /\ lockLog' = [lockLog EXCEPT ![i] = Append(@, LockEvent("release", "Fcb", "any"))]
  /\ pc' = [pc EXCEPT ![i] =
              IF status[i] # "STATUS_SUCCESS" THEN "np_cleanup" ELSE "complete"]
  /\ UNCHANGED <<irp, mountState, status, oplockLocals, pIrp, vcbResource, nodeState, keepalive,
                 collaborators, completions>>

\* DokanFCBUnlock(fcb).
NotifyPathUnlock(i) ==
  /\ pc[i] = "np_unlock"
  /\ fcbResource' = [fcbResource EXCEPT ![FcbOf(i)] = Unlock(@, i)]
  /\ lockLog' = [lockLog EXCEPT ![i] = Append(@, LockEvent("release", "Fcb", "any"))]
  /\ pc' = [pc EXCEPT ![i] =
              IF status[i] = "STATUS_OBJECT_NAME_INVALID" THEN "np_cleanup" ELSE "complete"]
  /\ UNCHANGED <<irp, mountState, status, oplockLocals, pIrp, vcbResource, nodeState, keepalive,
                 collaborators, completions>>

\* DokanCleanupAllChangeNotificationWaiters(fcb->Vcb).
NotifyPathCleanup(i) ==
  /\ pc[i] = "np_cleanup"
  /\ cleanups' = cleanups + 1
  /\ pc' = [pc EXCEPT ![i] = "complete"]
  /\ UNCHANGED <<irp, mountState, status, oplockLocals, pIrp, lockLog, resources, nodeState,
                 keepalive, fsrtl, notify, completions>>

(***************************************************************************)
(* DokanMountVolume.                                                       *)
(***************************************************************************)
\* The MountDevice of mount IRP i.
DcbOf(i) == irp[i].device

\* isNetworkFileSystem
IsNetworkFileSystem(d) == dcb[d].VolumeDeviceType = "FILE_DEVICE_NETWORK_FILE_SYSTEM"

\* IsMountPointDriveLetter(dcb->MountPoint)
IsMountPointDriveLetter(d) == dcb[d].MountPoint = "driveLetter"

\* FindMountEntry(dcb->Global, &dokanControl, TRUE): the entry of the device
\* name, when its session id is the control's.
FindMountEntry(table, d, session) ==
  IF table[d] # NoEntry /\ table[d].SessionId = session THEN table[d] ELSE NoEntry

\* The Volume device as IoCreateDevice hands it out.
CreatedDevice(d) ==
  [Identifier |-> "NONE", Flags |-> {"DO_DEVICE_INITIALIZING"}, VcbFlags |-> {},
   Dcb |-> "none", DeviceName |-> IF IsNetworkFileSystem(d) THEN d ELSE "unnamed"]

\* The Volume device after lines 645-682: the VCB is typed and linked to its
\* DCB, DO_DIRECT_IO is set, DO_DEVICE_INITIALIZING cleared, VCB_MOUNTED set.
InitializedDevice(dev, d) ==
  [dev EXCEPT !.Identifier = "VCB", !.Dcb = d,
              !.Flags = (@ \cup {"DO_DIRECT_IO"}) \ {"DO_DEVICE_INITIALIZING"},
              !.VcbFlags = @ \cup {"VCB_MOUNTED"}]

\* What every step of a mount leaves alone: the state of the control
\* requests.
controlState ==
  <<oplockLocals, pIrp, resources, nodeState, keepalive, collaborators, completions>>

\* MountEnter without the delete-pending test.
MountEnterNoDeletePendingTest(i) ==
  /\ pc[i] = "dispatch"
  /\ irp[i].minor = "IRP_MN_MOUNT_VOLUME"
  /\ IF irp[i].extension # "ok"
       THEN /\ status' = [status EXCEPT ![i] = "STATUS_UNRECOGNIZED_VOLUME"]
            /\ pc' = [pc EXCEPT ![i] = "complete"]
            /\ UNCHANGED <<mountLog, volDeviceObject>>
       ELSE \E s \in CreateDeviceStatuses :
              /\ mountLog' =
                   [mountLog EXCEPT ![i] =
                      Append(@, MountCall(IF IsNetworkFileSystem(DcbOf(i))
                                            THEN "IoCreateDeviceSecure"
                                            ELSE "IoCreateDevice", s))]
              /\ status' = [status EXCEPT ![i] = s]
              /\ IF NtSuccess(s)
                   THEN /\ volDeviceObject' =
                             [volDeviceObject EXCEPT ![i] = CreatedDevice(DcbOf(i))]
                        /\ pc' = [pc EXCEPT ![i] = "mv_initVcb"]
                   ELSE /\ UNCHANGED volDeviceObject
                        /\ pc' = [pc EXCEPT ![i] = "complete"]
  /\ UNCHANGED <<irp, lockLog, controlState, dcb, dcbVcb, dcbResource, mountEntry,
                 mountManagerLock, autoMount, autoMountStateBackup>>

\* Lines 596-643: the identity tests of the device extension, the
\* delete-pending test, then status = IoCreateDevice(...) or
\* IoCreateDeviceSecure(...) and the return when that fails.
MountEnter(i) ==
  /\ pc[i] = "dispatch"
  /\ irp[i].minor = "IRP_MN_MOUNT_VOLUME"
  /\ IF irp[i].extension # "ok"
       THEN /\ status' = [status EXCEPT ![i] = "STATUS_UNRECOGNIZED_VOLUME"]
            /\ pc' = [pc EXCEPT ![i] = "complete"]
            /\ UNCHANGED <<mountLog, volDeviceObject>>
       ELSE IF dcb[DcbOf(i)].deletePending
         THEN /\ status' = [status EXCEPT ![i] = "STATUS_DEVICE_REMOVED"]
              /\ pc' = [pc EXCEPT ![i] = "complete"]
              /\ UNCHANGED <<mountLog, volDeviceObject>>
         ELSE \E s \in CreateDeviceStatuses :
                /\ mountLog' =
                     [mountLog EXCEPT ![i] =
                        Append(@, MountCall(IF IsNetworkFileSystem(DcbOf(i))
                                              THEN "IoCreateDeviceSecure"
                                              ELSE "IoCreateDevice", s))]
                /\ status' = [status EXCEPT ![i] = s]
                /\ IF NtSuccess(s)
                     THEN /\ volDeviceObject' =
                               [volDeviceObject EXCEPT ![i] = CreatedDevice(DcbOf(i))]
                          /\ pc' = [pc EXCEPT ![i] = "mv_initVcb"]
                     ELSE /\ UNCHANGED volDeviceObject
                          /\ pc' = [pc EXCEPT ![i] = "complete"]
  /\ UNCHANGED <<irp, lockLog, controlState, dcb, dcbVcb, dcbResource, mountEntry,
                 mountManagerLock, autoMount, autoMountStateBackup>>

\* Lines 645-682: the VCB is set up, dcb->Vcb = vcb, the garbage collector
\* is started when an interval is configured, the device flags are set.
MountInitVcb(i) ==
  /\ pc[i] = "mv_initVcb"
  /\ volDeviceObject' =
       [volDeviceObject EXCEPT ![i] = InitializedDevice(@, DcbOf(i))]
  /\ dcbVcb' = [dcbVcb EXCEPT ![DcbOf(i)] = i]
  /\ mountLog' =
       [mountLog EXCEPT ![i] =
          IF dcb[DcbOf(i)].FcbGarbageCollectionIntervalMs # 0
            THEN Append(@, MountCall("DokanStartFcbGarbageCollector", "STATUS_SUCCESS"))
            ELSE @]
  /\ pc' = [pc EXCEPT ![i] = "mv_lockDcb"]
  /\ UNCHANGED <<irp, status, lockLog, controlState, dcb, dcbResource, mountEntry,
                 mountManagerLock, autoMount, autoMountStateBackup>>

\* MountLockDcb acquiring dcb->Resource shared.
MountLockDcbShared(i) ==
  /\ pc[i] = "mv_lockDcb"
  /\ CanLockRO(dcbResource[DcbOf(i)])
  /\ dcbResource' = [dcbResource EXCEPT ![DcbOf(i)] = LockRO(@, i)]
  /\ lockLog' = [lockLog EXCEPT ![i] = Append(@, LockEvent("acquire", "Dcb", "shared"))]
  /\ pc' = [pc EXCEPT ![i] = "mv_publish"]
  /\ UNCHANGED <<irp, status, controlState, dcb, dcbVcb, mountEntry, volDeviceObject,
                 mountManagerLock, autoMount, autoMountStateBackup, mountLog>>

\* ExAcquireResourceExclusiveLite(&dcb->Resource, TRUE), line 685.
MountLockDcb(i) ==
  /\ pc[i] = "mv_lockDcb"
  /\ CanLockRW(dcbResource[DcbOf(i)])
  /\ dcbResource' = [dcbResource EXCEPT ![DcbOf(i)] = LockRW(@, i)]
  /\ lockLog' = [lockLog EXCEPT ![i] = Append(@, LockEvent("acquire", "Dcb", "exclusive"))]
  /\ pc' = [pc EXCEPT ![i] = "mv_publish"]
  /\ UNCHANGED <<irp, status, controlState, dcb, dcbVcb, mountEntry, volDeviceObject,
                 mountManagerLock, autoMount, autoMountStateBackup, mountLog>>

\* MountPublish going on to the next step when no entry is found.
MountPublishGoesOn(i) ==
  /\ pc[i] = "mv_publish"
  /\ LET d == DcbOf(i)
         found == FindMountEntry(mountEntry, d, dcb[d].SessionId) IN
       /\ mountLog' =
            [mountLog EXCEPT ![i] =
               Append(@, MountCall("FindMountEntry",
                                   IF found # NoEntry THEN "STATUS_SUCCESS"
                                                      ELSE "STATUS_DEVICE_REMOVED"))]
       /\ IF found # NoEntry
            THEN /\ mountEntry' =
                      [mountEntry EXCEPT ![d] =
                         [@ EXCEPT !.VolumeDeviceObject = i,
                                   !.MountOptions = dcb[d].MountOptions]]
                 /\ UNCHANGED status
            ELSE /\ UNCHANGED mountEntry
                 /\ status' = [status EXCEPT ![i] = "STATUS_DEVICE_REMOVED"]
       /\ pc' = [pc EXCEPT ![i] = "mv_lockDcbAgain"]
       /\ dcbResource' = [dcbResource EXCEPT ![d] = Unlock(@, i)]
  /\ lockLog' = [lockLog EXCEPT ![i] = Append(@, LockEvent("release", "Dcb", "any"))]
  /\ UNCHANGED <<irp, controlState, dcb, dcbVcb, volDeviceObject, mountManagerLock,
                 autoMount, autoMountStateBackup>>

\* MountPublish unwinding the device when no mount entry matches.
MountPublishUnwinds(i) ==
  /\ pc[i] = "mv_publish"
  /\ LET d == DcbOf(i)
         found == FindMountEntry(mountEntry, d, dcb[d].SessionId) IN
       /\ mountLog' =
            [mountLog EXCEPT ![i] =
               Append(@, MountCall("FindMountEntry",
                                   IF found # NoEntry THEN "STATUS_SUCCESS"
                                                      ELSE "STATUS_DEVICE_REMOVED"))]
       /\ IF found # NoEntry
            THEN /\ mountEntry' =
                      [mountEntry EXCEPT ![d] =
                         [@ EXCEPT !.VolumeDeviceObject = i,
                                   !.MountOptions = dcb[d].MountOptions]]
                 /\ UNCHANGED <<status, dcbVcb>>
                 /\ pc' = [pc EXCEPT ![i] = "mv_lockDcbAgain"]
            ELSE /\ UNCHANGED mountEntry
                 /\ dcbVcb' = [dcbVcb EXCEPT ![d] = NoVcb]
                 /\ status' = [status EXCEPT ![i] = "STATUS_DEVICE_REMOVED"]
                 /\ pc' = [pc EXCEPT ![i] = "complete"]
       /\ dcbResource' = [dcbResource EXCEPT ![d] = Unlock(@, i)]
  /\ lockLog' = [lockLog EXCEPT ![i] = Append(@, LockEvent("release", "Dcb", "any"))]
  /\ UNCHANGED <<irp, controlState, dcb, volDeviceObject, mountManagerLock,
                 autoMount, autoMountStateBackup>>

\* FindMountEntry: the entry takes the Volume device and the mount options,
\* or the function returns STATUS_DEVICE_REMOVED; the resource is released
\* on both paths.
MountPublish(i) ==
  /\ pc[i] = "mv_publish"
  /\ LET d == DcbOf(i)
         found == FindMountEntry(mountEntry, d, dcb[d].SessionId) IN
       /\ mountLog' =
            [mountLog EXCEPT ![i] =
               Append(@, MountCall("FindMountEntry",
                                   IF found # NoEntry THEN "STATUS_SUCCESS"
                                                      ELSE "STATUS_DEVICE_REMOVED"))]
       /\ IF found # NoEntry
            THEN /\ mountEntry' =
                      [mountEntry EXCEPT ![d] =
                         [@ EXCEPT !.VolumeDeviceObject = i,
                                   !.MountOptions = dcb[d].MountOptions]]
                 /\ UNCHANGED status
                 /\ pc' = [pc EXCEPT ![i] = "mv_lockDcbAgain"]
            ELSE /\ UNCHANGED mountEntry
                 /\ status' = [status EXCEPT ![i] = "STATUS_DEVICE_REMOVED"]
                 /\ pc' = [pc EXCEPT ![i] = "complete"]
       /\ dcbResource' = [dcbResource EXCEPT ![d] = Unlock(@, i)]
  /\ lockLog' = [lockLog EXCEPT ![i] = Append(@, LockEvent("release", "Dcb", "any"))]
  /\ UNCHANGED <<irp, controlState, dcb, dcbVcb, volDeviceObject, mountManagerLock,
                 autoMount, autoMountStateBackup>>

\* ExAcquireResourceExclusiveLite(&dcb->Resource, TRUE), line 709.
MountLockDcbAgain(i) ==
  /\ pc[i] = "mv_lockDcbAgain"
  /\ CanLockRW(dcbResource[DcbOf(i)])
  /\ dcbResource' = [dcbResource EXCEPT ![DcbOf(i)] = LockRW(@, i)]
  /\ lockLog' = [lockLog EXCEPT ![i] = Append(@, LockEvent("acquire", "Dcb", "exclusive"))]
  /\ pc' = [pc EXCEPT ![i] = "mv_timeout"]
  /\ UNCHANGED <<irp, status, controlState, dcb, dcbVcb, mountEntry, volDeviceObject,
                 mountManagerLock, autoMount, autoMountStateBackup, mountLog>>

\* DokanUpdateTimeout(&dcb->TickCount, ...); ExReleaseResourceLite(&dcb->Resource),
\* lines 710-711.
MountUpdateTimeout(i) ==
  /\ pc[i] = "mv_timeout"
  /\ mountLog' =
       [mountLog EXCEPT ![i] = Append(@, MountCall("DokanUpdateTimeout", "STATUS_SUCCESS"))]
  /\ dcbResource' = [dcbResource EXCEPT ![DcbOf(i)] = Unlock(@, i)]
  /\ lockLog' = [lockLog EXCEPT ![i] = Append(@, LockEvent("release", "Dcb", "any"))]
  /\ pc' = [pc EXCEPT ![i] = "mv_checkThread"]
  /\ UNCHANGED <<irp, status, controlState, dcb, dcbVcb, mountEntry, volDeviceObject,
                 mountManagerLock, autoMount, autoMountStateBackup>>

\* MountStartCheckThread going on without starting the thread.
MountStartCheckThreadSkipped(i) ==
  /\ pc[i] = "mv_checkThread"
  /\ pc' = [pc EXCEPT ![i] =
              IF ~dcb[DcbOf(i)].UseMountManager THEN "mv_mountPoint"
              ELSE IF IsMountPointDriveLetter(DcbOf(i)) THEN "mv_arrival"
              ELSE "mv_lockMountManager"]
  /\ UNCHANGED <<irp, status, lockLog, controlState, dcb, dcbVcb, dcbResource, mountEntry,
                 volDeviceObject, mountManagerLock, autoMount, autoMountStateBackup, mountLog>>

\* DokanStartCheckThread(dcb), line 712, with dcb->Resource released.
MountStartCheckThread(i) ==
  /\ pc[i] = "mv_checkThread"
  /\ mountLog' =
       [mountLog EXCEPT ![i] = Append(@, MountCall("DokanStartCheckThread", "STATUS_SUCCESS"))]
  /\ pc' = [pc EXCEPT ![i] =
              IF ~dcb[DcbOf(i)].UseMountManager THEN "mv_mountPoint"
              ELSE IF IsMountPointDriveLetter(DcbOf(i)) THEN "mv_arrival"
              ELSE "mv_lockMountManager"]
  /\ UNCHANGED <<irp, status, lockLog, controlState, dcb, dcbVcb, dcbResource, mountEntry,
                 volDeviceObject, mountManagerLock, autoMount, autoMountStateBackup>>

\* DokanQueryAutoMount(&autoMountStateBackup): the state on success; the
\* backup keeps its initial TRUE when the query fails.
DokanQueryAutoMount(queryWorks, state) == IF queryWorks THEN state ELSE TRUE

\* ExAcquireResourceExclusiveLite(&dcb->Global->MountManagerLock, TRUE).
MountLockMountManager(i) ==
  /\ pc[i] = "mv_lockMountManager"
  /\ CanLockRW(mountManagerLock)
  /\ mountManagerLock' = LockRW(mountManagerLock, i)
  /\ lockLog' =
       [lockLog EXCEPT ![i] = Append(@, LockEvent("acquire", "MountManager", "exclusive"))]
  /\ pc' = [pc EXCEPT ![i] = "mv_suspend"]
  /\ UNCHANGED <<irp, status, controlState, dcb, dcbVcb, dcbResource, mountEntry,
                 volDeviceObject, autoMount, autoMountStateBackup, mountLog>>

\* DokanQueryAutoMount; if (autoMountStateBackup) DokanSendAutoMount(FALSE).
MountSuspendAutoMount(i) ==
  /\ pc[i] = "mv_suspend"
  /\ \E queryWorks \in BOOLEAN :
       LET backup == DokanQueryAutoMount(queryWorks, autoMount) IN
         /\ autoMountStateBackup' = [autoMountStateBackup EXCEPT ![i] = backup]
         /\ autoMount' = IF backup THEN FALSE ELSE autoMount
         /\ mountLog' =
              [mountLog EXCEPT ![i] =
                 @ \o <<[call |-> "DokanQueryAutoMount",
                         status |-> IF queryWorks THEN "STATUS_SUCCESS"
                                                  ELSE "STATUS_UNSUCCESSFUL",
                         autoMount |-> autoMount]>>
                   \o (IF backup
                         THEN <<MountCall("DokanSendAutoMount(FALSE)", "STATUS_SUCCESS")>>
                         ELSE <<>>)]
  /\ pc' = [pc EXCEPT ![i] = "mv_arrival"]
  /\ UNCHANGED <<irp, status, lockLog, controlState, dcb, dcbVcb, dcbResource, mountEntry,
                 volDeviceObject, mountManagerLock>>

\* MountArrivalNotification returning when the notification fails.
MountArrivalNotificationAborts(i) ==
  /\ pc[i] = "mv_arrival"
  /\ \E s \in MountManagerStatuses :
       /\ mountLog' =
            [mountLog EXCEPT ![i] =
               Append(@, [call |-> "DokanSendVolumeArrivalNotification", status |-> s,
                          autoMount |-> autoMount,
                          locked |-> Holds(mountManagerLock, i)])]
       /\ status' = [status EXCEPT ![i] = s]
       /\ pc' = [pc EXCEPT ![i] =
                   IF ~NtSuccess(s) THEN "complete"
                   ELSE IF IsMountPointDriveLetter(DcbOf(i)) THEN "mv_mountPoint"
                   ELSE "mv_restore"]
  /\ UNCHANGED <<irp, lockLog, controlState, dcb, dcbVcb, dcbResource, mountEntry,
                 volDeviceObject, mountManagerLock, autoMount, autoMountStateBackup>>

\* status = DokanSendVolumeArrivalNotification(dcb->DiskDeviceName); a
\* failure is logged.
MountArrivalNotification(i) ==
  /\ pc[i] = "mv_arrival"
  /\ \E s \in MountManagerStatuses :
       /\ mountLog' =
            [mountLog EXCEPT ![i] =
               Append(@, [call |-> "DokanSendVolumeArrivalNotification", status |-> s,
                          autoMount |-> autoMount,
                          locked |-> Holds(mountManagerLock, i)])]
       /\ status' = [status EXCEPT ![i] = s]
  /\ pc' = [pc EXCEPT ![i] =
              IF IsMountPointDriveLetter(DcbOf(i)) THEN "mv_mountPoint" ELSE "mv_restore"]
  /\ UNCHANGED <<irp, lockLog, controlState, dcb, dcbVcb, dcbResource, mountEntry,
                 volDeviceObject, mountManagerLock, autoMount, autoMountStateBackup>>

\* MountRestoreAutoMount enabling AutoMount whatever the saved state.
MountRestoreAutoMountAlwaysEnables(i) ==
  /\ pc[i] = "mv_restore"
  /\ autoMount' = TRUE
  /\ mountLog' =
       [mountLog EXCEPT ![i] =
          Append(@, MountCall("DokanSendAutoMount(TRUE)", "STATUS_SUCCESS"))]
  /\ mountManagerLock' = Unlock(mountManagerLock, i)
  /\ lockLog' = [lockLog EXCEPT ![i] = Append(@, LockEvent("release", "MountManager", "any"))]
  /\ pc' = [pc EXCEPT ![i] = "mv_mountPoint"]
  /\ UNCHANGED <<irp, status, controlState, dcb, dcbVcb, dcbResource, mountEntry,
                 volDeviceObject, autoMountStateBackup>>

\* if (autoMountStateBackup) DokanSendAutoMount(TRUE); release the
\* MountManagerLock.
MountRestoreAutoMount(i) ==
  /\ pc[i] = "mv_restore"
  /\ autoMount' = IF autoMountStateBackup[i] THEN TRUE ELSE autoMount
  /\ mountLog' =
       [mountLog EXCEPT ![i] =
          IF autoMountStateBackup[i]
            THEN Append(@, MountCall("DokanSendAutoMount(TRUE)", "STATUS_SUCCESS"))
            ELSE @]
  /\ mountManagerLock' = Unlock(mountManagerLock, i)
  /\ lockLog' = [lockLog EXCEPT ![i] = Append(@, LockEvent("release", "MountManager", "any"))]
  /\ pc' = [pc EXCEPT ![i] = "mv_mountPoint"]
  /\ UNCHANGED <<irp, status, controlState, dcb, dcbVcb, dcbResource, mountEntry,
                 volDeviceObject, autoMountStateBackup>>

\* Lines 747-758: if (isDriveLetter) DokanCreateMountPoint(dcb); if
\* (isNetworkFileSystem) RunAsSystem(DokanRegisterUncProvider, dcb); return
\* STATUS_SUCCESS.  What the two calls report is not read.
MountCreateMountPoint(i) ==
  /\ pc[i] = "mv_mountPoint"
  /\ \E sm \in IF IsMountPointDriveLetter(DcbOf(i)) THEN MountManagerStatuses
                                                    ELSE {"STATUS_SUCCESS"},
        su \in IF IsNetworkFileSystem(DcbOf(i)) THEN MountManagerStatuses
                                                ELSE {"STATUS_SUCCESS"} :
       mountLog' =
         [mountLog EXCEPT ![i] =
            @ \o (IF IsMountPointDriveLetter(DcbOf(i))
                    THEN <<MountCall("DokanCreateMountPoint", sm)>> ELSE <<>>)
              \o (IF IsNetworkFileSystem(DcbOf(i))
                    THEN <<MountCall("DokanRegisterUncProvider", su)>> ELSE <<>>)]
  /\ status' = [status EXCEPT ![i] = "STATUS_SUCCESS"]
  /\ pc' = [pc EXCEPT ![i] = "complete"]
  /\ UNCHANGED <<irp, lockLog, controlState, dcb, dcbVcb, dcbResource, mountEntry,
                 volDeviceObject, mountManagerLock, autoMount, autoMountStateBackup>>

(***************************************************************************)
(* The specifications.                                                     *)
(***************************************************************************)
\* One step of the thread that handles IRP i.
Step(i) ==
    \/ DispatchUnsupportedMinor(i)
    \/ UserFsStateless(i)
    \/ ActivateKeepaliveCheck(i)
    \/ ActivateKeepaliveLock(i)
    \/ ActivateKeepaliveSetCcb(i)
    \/ ActivateKeepaliveSetVcb(i)
    \/ ActivateKeepaliveUnlock(i)
    \/ NotifyPathCheck(i)
    \/ NotifyPathLock(i)
    \/ NotifyPathReport(i)
    \/ NotifyPathUnlock(i)
    \/ NotifyPathCleanup(i)
    \/ OplockEnter(i)
    \/ OplockLockVcb(i)
    \/ OplockLockFcb(i)
    \/ OplockAckLockFcb(i)
    \/ OplockMalformed(i)
    \/ OplockDeletePending(i)
    \/ OplockFsctrl(i)
    \/ OplockUnlockFcb(i)
    \/ OplockUnlockVcb(i)
    \/ ArbiterCompletesPending(i)
    \/ DispatchComplete(i)

Next == \E i \in Irps : Step(i)

\* No other thread is inside the dispatcher: every other IRP is still to be
\* delivered or has been dispatched to the end.
NoOtherDispatchRunning(i) ==
  \A j \in Irps \ {i} : pc[j] \in {"absent", "dispatch", "done"}

\* The IRPs are delivered one after the other.
NextSeq ==
  \E i \in Irps :
    \/ NoOtherDispatchRunning(i) /\ DispatchUnsupportedMinor(i)
    \/ NoOtherDispatchRunning(i) /\ UserFsStateless(i)
    \/ NoOtherDispatchRunning(i) /\ ActivateKeepaliveCheck(i)
    \/ NoOtherDispatchRunning(i) /\ ActivateKeepaliveLock(i)
    \/ NoOtherDispatchRunning(i) /\ ActivateKeepaliveSetCcb(i)
    \/ NoOtherDispatchRunning(i) /\ ActivateKeepaliveSetVcb(i)
    \/ NoOtherDispatchRunning(i) /\ ActivateKeepaliveUnlock(i)
    \/ NoOtherDispatchRunning(i) /\ NotifyPathCheck(i)
    \/ NoOtherDispatchRunning(i) /\ NotifyPathLock(i)
    \/ NoOtherDispatchRunning(i) /\ NotifyPathReport(i)
    \/ NoOtherDispatchRunning(i) /\ NotifyPathUnlock(i)
    \/ NoOtherDispatchRunning(i) /\ NotifyPathCleanup(i)
    \/ NoOtherDispatchRunning(i) /\ OplockEnter(i)
    \/ NoOtherDispatchRunning(i) /\ OplockLockVcb(i)
    \/ NoOtherDispatchRunning(i) /\ OplockLockFcb(i)
    \/ NoOtherDispatchRunning(i) /\ OplockAckLockFcb(i)
    \/ NoOtherDispatchRunning(i) /\ OplockMalformed(i)
    \/ NoOtherDispatchRunning(i) /\ OplockDeletePending(i)
    \/ NoOtherDispatchRunning(i) /\ OplockFsctrl(i)
    \/ NoOtherDispatchRunning(i) /\ OplockUnlockFcb(i)
    \/ NoOtherDispatchRunning(i) /\ OplockUnlockVcb(i)
    \/ NoOtherDispatchRunning(i) /\ ArbiterCompletesPending(i)
    \/ NoOtherDispatchRunning(i) /\ DispatchComplete(i)

\* One step of the thread that handles a mount IRP.
NextMount ==
  \E i \in Irps :
    \/ MountEnter(i)
    \/ MountInitVcb(i)
    \/ MountLockDcb(i)
    \/ MountPublish(i)
    \/ MountLockDcbAgain(i)
    \/ MountUpdateTimeout(i)
    \/ MountStartCheckThread(i)
    \/ MountLockMountManager(i)
    \/ MountSuspendAutoMount(i)
    \/ MountArrivalNotification(i)
    \/ MountRestoreAutoMount(i)
    \/ MountCreateMountPoint(i)
    \/ DispatchComplete(i)

\* The structural change takes the Vcb exclusively: DokanVCBLockRW(vcb).
StructuralLockVcb(i) ==
  /\ pc[i] = "dispatch"
  /\ irp[i].minor = "VCB_STRUCTURAL_CHANGE"
  /\ CanLockRW(vcbResource)
  /\ vcbResource' = LockRW(vcbResource, i)
  /\ lockLog' = [lockLog EXCEPT ![i] = Append(@, LockEvent("acquire", "Vcb", "exclusive"))]
  /\ pc' = [pc EXCEPT ![i] = "sc_lockFcb"]
  /\ UNCHANGED <<irp, mountState, status, oplockLocals, pIrp, fcbResource, nodeState, keepalive,
                 collaborators, completions>>

\* Inside the Vcb it takes the Node it changes: DokanFCBLockRW(fcb).
StructuralLockFcb(i) ==
  /\ pc[i] = "sc_lockFcb"
  /\ CanLockRW(fcbResource[FcbOf(i)])
  /\ fcbResource' = [fcbResource EXCEPT ![FcbOf(i)] = LockRW(@, i)]
  /\ lockLog' = [lockLog EXCEPT ![i] = Append(@, LockEvent("acquire", "Fcb", "exclusive"))]
  /\ pc' = [pc EXCEPT ![i] = "sc_unlock"]
  /\ UNCHANGED <<irp, mountState, status, oplockLocals, pIrp, vcbResource, nodeState, keepalive,
                 collaborators, completions>>

\* DokanFCBUnlock(fcb); DokanVCBUnlock(vcb).  The change belongs to a request
\* this model does not complete.
StructuralUnlock(i) ==
  /\ pc[i] = "sc_unlock"
  /\ fcbResource' = [fcbResource EXCEPT ![FcbOf(i)] = Unlock(@, i)]
  /\ vcbResource' = Unlock(vcbResource, i)
  /\ lockLog' = [lockLog EXCEPT ![i] = @ \o <<LockEvent("release", "Fcb", "any"),
                                               LockEvent("release", "Vcb", "any")>>]
  /\ pc' = [pc EXCEPT ![i] = "done"]
  /\ UNCHANGED <<irp, mountState, status, oplockLocals, pIrp, nodeState, keepalive,
                 collaborators, completions>>

\* One step of thread i in the lock specification.
ThreadStep(i) ==
  \/ ActivateKeepaliveCheck(i)
  \/ ActivateKeepaliveLock(i)
  \/ ActivateKeepaliveSetCcb(i)
  \/ ActivateKeepaliveSetVcb(i)
  \/ ActivateKeepaliveUnlock(i)
  \/ NotifyPathCheck(i)
  \/ NotifyPathLock(i)
  \/ NotifyPathReport(i)
  \/ NotifyPathUnlock(i)
  \/ NotifyPathCleanup(i)
  \/ OplockEnter(i)
  \/ OplockLockVcb(i)
  \/ OplockLockFcb(i)
  \/ OplockAckLockFcb(i)
  \/ OplockFsctrl(i)
  \/ OplockUnlockFcb(i)
  \/ OplockUnlockVcb(i)
  \/ DispatchComplete(i)
  \/ StructuralLockVcb(i)
  \/ StructuralLockFcb(i)
  \/ StructuralUnlock(i)

\* The threads run concurrently.  An IRP the oplock package kept stays with
\* it: its thread has returned all the same.
NextLock == \E i \in Irps : ThreadStep(i)

\* Control requests alongside structural changes of the volume.
SpecLock == InitLock /\ [][NextLock]_vars

\* The same, when the scheduler does not stop while a thread can run: every
\* thread takes finitely many steps, so no thread needs a guarantee of its
\* own.
SpecLockFair == SpecLock /\ WF_vars(NextLock)

\* NumIrps concurrent requests.
Spec == Init /\ [][Next]_vars

\* The same requests, dispatched one at a time.
SpecSeq == Init /\ [][NextSeq]_vars

\* NumIrps concurrent mount events.
SpecMount == InitMount /\ [][NextMount]_vars

\* One mount event, over every configuration of its device.
SpecMountOne == InitMountOne /\ [][NextMount]_vars

\* One request at a time, over every input.
SpecOne == InitOne /\ [][Next]_vars


(***************************************************************************)
(* Vocabulary of the properties.                                           *)
(***************************************************************************)
\* IRP i is routed to DokanOplockRequest.
IsOplockIrp(i) ==
  irp[i] # NoIrp /\ irp[i].minor = "IRP_MN_USER_FS_REQUEST" /\ irp[i].code \in OplockCodes

\* IRP i is routed to case FSCTL_ACTIVATE_KEEPALIVE.
IsKeepaliveIrp(i) ==
  irp[i] # NoIrp /\ irp[i].minor = "IRP_MN_USER_FS_REQUEST"
    /\ irp[i].code = "FSCTL_ACTIVATE_KEEPALIVE"

\* The handler of IRP i has returned to the dispatcher.
Returned(i) == pc[i] \in {"complete", "done"}

\* How often `op` on `res` occurs among the first n entries of a lock log.
CountOf(log, n, op, res) ==
  Cardinality({k \in 1 .. n : log[k].op = op /\ log[k].res = res})

\* The thread whose lock log this is holds `res` after the first n entries.
HeldAfter(log, n, res) ==
  CountOf(log, n, "acquire", res) > CountOf(log, n, "release", res)

\* The acquisitions of a lock log, in order.
Acquisitions(log) == SelectSeq(log, LAMBDA e : e.op = "acquire")

\* Thread i holds no Vcb and no Fcb resource.
HoldsNothing(i) ==
  ~Holds(vcbResource, i) /\ \A f \in Fcbs : ~Holds(fcbResource[f], i)

(***************************************************************************)
(* C1: in every execution of DokanOplockRequest the thread acquires either *)
(* nothing, or the Vcb shared and then the Fcb exclusive, or the Fcb       *)
(* shared alone; every resource it acquired is released exactly once, the  *)
(* Fcb before the Vcb; and once the function has returned the thread holds *)
(* no Vcb and no Fcb resource.                                             *)
(***************************************************************************)
OplockLocksBalanced ==
  \A i \in Irps :
    IsOplockIrp(i) =>
      LET log == lockLog[i] IN
        /\ \A n \in 0 .. Len(log) : \A res \in {"Vcb", "Fcb"} :
             /\ CountOf(log, n, "release", res) <= CountOf(log, n, "acquire", res)
             /\ CountOf(log, n, "acquire", res) <= 1
        /\ \A n \in 1 .. Len(log) :
             (log[n].op = "release" /\ log[n].res = "Vcb") => ~HeldAfter(log, n, "Fcb")
        /\ Acquisitions(log) \in
             { <<>>,
               <<LockEvent("acquire", "Vcb", "shared")>>,
               <<LockEvent("acquire", "Vcb", "shared"), LockEvent("acquire", "Fcb", "exclusive")>>,
               <<LockEvent("acquire", "Fcb", "shared")>> }
        /\ Returned(i) =>
             /\ HoldsNothing(i)
             /\ \A res \in {"Vcb", "Fcb"} :
                  CountOf(log, Len(log), "release", res) = CountOf(log, Len(log), "acquire", res)
             /\ Acquisitions(log) # <<LockEvent("acquire", "Vcb", "shared")>>

\* Two requests have returned, one refused by the arbiter and one rejected as
\* delete-pending, each after taking and releasing both resources; or an
\* acknowledgement has returned after taking and releasing the Fcb alone.
OplockLocksBalancedWitness ==
  \E i, j \in Irps :
    /\ pc[i] = "done" /\ pc[j] = "done"
    /\ fsrtl[i] # <<>> /\ status[i] = "STATUS_OPLOCK_NOT_GRANTED"
    /\ Len(lockLog[i]) = 4
    /\ fsrtl[j] = <<>> /\ status[j] = "STATUS_DELETE_PENDING"
    /\ Len(lockLog[j]) = 4
    /\ HoldsNothing(i) /\ HoldsNothing(j)

(***************************************************************************)
(* C2: no thread ever acquires the Vcb resource while it holds an Fcb      *)
(* resource, in the oplock, keepalive and notification handlers alike.     *)
(***************************************************************************)
VcbBeforeFcb ==
  \A i \in Irps :
    \A n \in 1 .. Len(lockLog[i]) :
      (lockLog[i][n].op = "acquire" /\ lockLog[i][n].res = "Vcb")
        => ~HeldAfter(lockLog[i], n - 1, "Fcb")

\* Two request-class threads are both past the Vcb: one holds its Fcb
\* exclusively, the other waits for or holds its own.
VcbBeforeFcbWitness ==
  \E i, j \in Irps :
    /\ i # j
    /\ Holds(vcbResource, i) /\ Holds(vcbResource, j)
    /\ fcbResource[FcbOf(i)].exclusive = i
    /\ Len(lockLog[i]) = 2 /\ lockLog[i][1].res = "Vcb" /\ lockLog[i][2].res = "Fcb"

(***************************************************************************)
(* C10: at most one Ccb of the volume has IsKeepaliveActive set.           *)
(***************************************************************************)
AtMostOneKeepaliveActive ==
  Cardinality({c \in Ccbs : ccbIsKeepaliveActive[c]}) <= 1


(***************************************************************************)
(* Vocabulary of the oplock properties.                                    *)
(***************************************************************************)
\* The Node IRP i names.
NodeOf(i) == fcb[FcbOf(i)]

\* DokanOplockRequest called FsRtlOplockFsctrl with IRP i.
Delegated(i) == fsrtl[i] # <<>>

\* An oplock IRP whose Ccb, Fcb, Vcb and Dcb are all present and well typed.
OplockIrpWithValidChain(i) == IsOplockIrp(i) /\ irp[i].chain = "ok"

\* The generic code with neither the request nor the acknowledge flag.
GenericWithNeitherFlag(r) ==
  /\ r.code = "FSCTL_REQUEST_OPLOCK"
  /\ "REQUEST_OPLOCK_INPUT_FLAG_REQUEST" \notin r.Flags
  /\ "REQUEST_OPLOCK_INPUT_FLAG_ACK" \notin r.Flags

\* The generic code with an input or output buffer shorter than its structure.
GenericWithShortBuffer(r) ==
  /\ r.code = "FSCTL_REQUEST_OPLOCK"
  /\ \/ r.InputBufferLength < SizeofRequestOplockInputBuffer
     \/ r.OutputBufferLength < SizeofRequestOplockOutputBuffer

\* A shared-class request made with the generic code: level R or RH.
GenericSharedRequest(r) ==
  /\ r.code = "FSCTL_REQUEST_OPLOCK"
  /\ r.RequestedOplockLevel \in
       {{"OPLOCK_LEVEL_CACHE_READ"}, {"OPLOCK_LEVEL_CACHE_READ", "OPLOCK_LEVEL_CACHE_HANDLE"}}

\* Batch, filter, or the generic code asking for handle caching.
BatchFilterOrHandle(r) ==
  \/ r.code \in {"FSCTL_REQUEST_BATCH_OPLOCK", "FSCTL_REQUEST_FILTER_OPLOCK"}
  \/ /\ r.code = "FSCTL_REQUEST_OPLOCK"
     /\ "OPLOCK_LEVEL_CACHE_HANDLE" \in r.RequestedOplockLevel

(***************************************************************************)
(* C3 as stated: a generic request with neither flag returns               *)
(* STATUS_INVALID_PARAMETER, takes no lock and never reaches the arbiter.  *)
(***************************************************************************)
MalformedGenericInvalidParameter ==
  \A i \in Irps :
    (IsOplockIrp(i) /\ GenericWithNeitherFlag(irp[i])) =>
      /\ lockLog[i] = <<>>
      /\ ~Delegated(i)
      /\ Returned(i) => status[i] = "STATUS_INVALID_PARAMETER"

(***************************************************************************)
(* C3 amended: a generic request with neither flag takes no lock and never *)
(* reaches the arbiter; it returns STATUS_INVALID_PARAMETER, except that   *)
(* with a valid identity chain and an input or output buffer shorter than  *)
(* its structure it returns STATUS_BUFFER_TOO_SMALL.                       *)
(***************************************************************************)
MalformedGenericRejected ==
  \A i \in Irps :
    (IsOplockIrp(i) /\ GenericWithNeitherFlag(irp[i])) =>
      /\ lockLog[i] = <<>>
      /\ ~Delegated(i)
      /\ Returned(i) =>
           status[i] = IF irp[i].chain = "ok" /\ GenericWithShortBuffer(irp[i])
                         THEN "STATUS_BUFFER_TOO_SMALL"
                         ELSE "STATUS_INVALID_PARAMETER"

\* A generic request with neither flag, with buffers of full size, on a
\* file, was rejected by the classification in the try block.
MalformedGenericRejectedWitness ==
  \E i \in Irps :
    /\ OplockIrpWithValidChain(i)
    /\ GenericWithNeitherFlag(irp[i])
    /\ ~GenericWithShortBuffer(irp[i])
    /\ ~NodeOf(i).isDirectory
    /\ pc[i] = "done"
    /\ status[i] = "STATUS_INVALID_PARAMETER"
    /\ completions[i] = <<[by |-> "dispatcher", status |-> "STATUS_INVALID_PARAMETER"]>>

(***************************************************************************)
(* C4 as stated: on a directory Node with a valid identity chain, every    *)
(* oplock request that is not a shared-class generic request returns       *)
(* STATUS_INVALID_PARAMETER and never reaches the arbiter.                 *)
(***************************************************************************)
DirectoryOnlySharedGeneric ==
  \A i \in Irps :
    (OplockIrpWithValidChain(i) /\ NodeOf(i).isDirectory /\ ~GenericSharedRequest(irp[i])) =>
      /\ ~Delegated(i)
      /\ Returned(i) => status[i] = "STATUS_INVALID_PARAMETER"

(***************************************************************************)
(* C4 amended: on a directory Node with a valid identity chain, every      *)
(* oplock request that is not a shared-class generic request never reaches *)
(* the arbiter; it returns STATUS_INVALID_PARAMETER, except that a generic *)
(* request with an input or output buffer shorter than its structure       *)
(* returns STATUS_BUFFER_TOO_SMALL.                                        *)
(***************************************************************************)
DirectoryNonSharedRejected ==
  \A i \in Irps :
    (OplockIrpWithValidChain(i) /\ NodeOf(i).isDirectory /\ ~GenericSharedRequest(irp[i])) =>
      /\ ~Delegated(i)
      /\ Returned(i) =>
           status[i] = IF GenericWithShortBuffer(irp[i])
                         THEN "STATUS_BUFFER_TOO_SMALL"
                         ELSE "STATUS_INVALID_PARAMETER"

\* A generic request for the RW level, with the request flag and buffers of
\* full size, on a directory, was rejected.
DirectoryNonSharedRejectedWitness ==
  \E i \in Irps :
    /\ OplockIrpWithValidChain(i)
    /\ NodeOf(i).isDirectory
    /\ irp[i].code = "FSCTL_REQUEST_OPLOCK"
    /\ irp[i].RequestedOplockLevel = {"OPLOCK_LEVEL_CACHE_READ", "OPLOCK_LEVEL_CACHE_WRITE"}
    /\ "REQUEST_OPLOCK_INPUT_FLAG_REQUEST" \in irp[i].Flags
    /\ ~GenericWithShortBuffer(irp[i])
    /\ pc[i] = "done"
    /\ status[i] = "STATUS_INVALID_PARAMETER"
    /\ ~Delegated(i)

(***************************************************************************)
(* C5 as stated: on a Node marked for delete with a valid identity chain,  *)
(* every batch, filter or handle-caching request returns                   *)
(* STATUS_DELETE_PENDING and never reaches the arbiter, whatever its       *)
(* flags, its buffers and the Node's directory flag.                       *)
(***************************************************************************)
DeletePendingAlwaysRejected ==
  \A i \in Irps :
    (OplockIrpWithValidChain(i) /\ NodeOf(i).deleteOnClose /\ BatchFilterOrHandle(irp[i])) =>
      /\ ~Delegated(i)
      /\ Returned(i) => status[i] = "STATUS_DELETE_PENDING"

(***************************************************************************)
(* C5 amended: on a Node marked for delete with a valid identity chain, a  *)
(* batch, filter or handle-caching request never reaches the arbiter, and  *)
(* it returns STATUS_DELETE_PENDING unless an earlier test rejects it: a   *)
(* generic request with a short input or output buffer returns             *)
(* STATUS_BUFFER_TOO_SMALL; otherwise a request on a directory that is not *)
(* a shared-class generic request, and a generic request with neither      *)
(* flag, return STATUS_INVALID_PARAMETER.                                  *)
(***************************************************************************)
DeletePendingRejected ==
  \A i \in Irps :
    (OplockIrpWithValidChain(i) /\ NodeOf(i).deleteOnClose /\ BatchFilterOrHandle(irp[i])) =>
      /\ ~Delegated(i)
      /\ Returned(i) =>
           status[i] =
             IF GenericWithShortBuffer(irp[i]) THEN "STATUS_BUFFER_TOO_SMALL"
             ELSE IF NodeOf(i).isDirectory /\ ~GenericSharedRequest(irp[i])
               THEN "STATUS_INVALID_PARAMETER"
             ELSE IF GenericWithNeitherFlag(irp[i]) THEN "STATUS_INVALID_PARAMETER"
             ELSE "STATUS_DELETE_PENDING"

\* A generic request for the RH level with the request flag, on a file
\* marked for delete, was rejected after taking and releasing both locks.
DeletePendingRejectedWitness ==
  \E i \in Irps :
    /\ OplockIrpWithValidChain(i)
    /\ NodeOf(i).deleteOnClose /\ ~NodeOf(i).isDirectory
    /\ irp[i].code = "FSCTL_REQUEST_OPLOCK"
    /\ irp[i].RequestedOplockLevel = {"OPLOCK_LEVEL_CACHE_READ", "OPLOCK_LEVEL_CACHE_HANDLE"}
    /\ irp[i].Flags = {"REQUEST_OPLOCK_INPUT_FLAG_REQUEST"}
    /\ pc[i] = "done"
    /\ status[i] = "STATUS_DELETE_PENDING"
    /\ ~Delegated(i)
    /\ Len(lockLog[i]) = 4


(***************************************************************************)
(* C6: an IRP handed to FsRtlOplockFsctrl is never completed by the        *)
(* dispatcher, whatever status the arbiter returned; an IRP that was not   *)
(* handed over is completed by the dispatcher exactly once, when the       *)
(* dispatch ends, with the status the dispatch returns; and no IRP is      *)
(* completed twice.                                                        *)
(***************************************************************************)
DelegatedIrpNotCompletedHere ==
  \A i \in Irps :
    irp[i] # NoIrp =>
      /\ Len(completions[i]) <= 1
      /\ Delegated(i) =>
           \A k \in 1 .. Len(completions[i]) : completions[i][k].by = "arbiter"
      /\ ~Delegated(i) =>
           completions[i] =
             IF pc[i] = "done"
               THEN <<[by |-> "dispatcher", status |-> status[i]]>>
               ELSE <<>>

\* The dispatch of an IRP the arbiter refused has ended: the arbiter's
\* completion is the only one.
DelegatedIrpNotCompletedHereWitness ==
  \E i \in Irps :
    /\ pc[i] = "done"
    /\ Delegated(i)
    /\ fsrtl[i][1].status = "STATUS_OPLOCK_NOT_GRANTED"
    /\ completions[i] = <<[by |-> "arbiter", status |-> "STATUS_OPLOCK_NOT_GRANTED"]>>

(***************************************************************************)
(* C7: once DokanOplockRequest has called FsRtlOplockFsctrl, it called it  *)
(* once, and the status it returns, which DokanUserFsRequest returns to    *)
(* the dispatcher, is the status that call reported.                       *)
(***************************************************************************)
ArbiterStatusVerbatim ==
  \A i \in Irps :
    Delegated(i) =>
      /\ Len(fsrtl[i]) = 1
      /\ status[i] = fsrtl[i][1].status

\* DokanUserFsRequest has returned the STATUS_PENDING the arbiter reported.
ArbiterStatusVerbatimWitness ==
  \E i \in Irps :
    /\ pc[i] = "complete"
    /\ Delegated(i)
    /\ fsrtl[i][1].status = "STATUS_PENDING"
    /\ status[i] = "STATUS_PENDING"

(***************************************************************************)
(* Vocabulary of the conflict hint.                                        *)
(***************************************************************************)
\* IRP i is a request-class oplock request that reached the arbiter.
DelegatedRequestClass(i) ==
  /\ IsOplockIrp(i)
  /\ Delegated(i)
  /\ \/ irp[i].code \in LegacyRequestCodes
     \/ "REQUEST_OPLOCK_INPUT_FLAG_REQUEST" \in irp[i].Flags

\* The hint the specification describes: 1 or 0 for a shared request by
\* whether a byte-range lock of a file blocks it, the open-handle count for
\* every other request.
DescribedHint(i) ==
  IF irp[i].code = "FSCTL_REQUEST_OPLOCK_LEVEL_2" \/ GenericSharedRequest(irp[i])
    THEN IF ~NodeOf(i).isDirectory /\ ByteRangeLockDenies(NodeOf(i), checkLockRoutine)
           THEN 1
           ELSE 0
    ELSE NodeOf(i).FileCount

\* A level 1 request on a file with no open handle and no byte-range lock
\* is delegated with hint 0.
LevelOneOnIdleFileHintZero ==
  \A i \in Irps :
    ( /\ DelegatedRequestClass(i)
      /\ irp[i].code = "FSCTL_REQUEST_OPLOCK_LEVEL_1"
      /\ ~NodeOf(i).isDirectory
      /\ NodeOf(i).FileCount = 0
      /\ NodeOf(i).FileLock = "none" ) => fsrtl[i][1].hint = 0

(***************************************************************************)
(* C8 as stated: with DOKAN_EVENT_FILELOCK_USER_MODE set, the hint of a    *)
(* request-class request is 1 or 0 for a shared request by whether a       *)
(* byte-range lock blocks it, and the open-handle count otherwise; a level *)
(* 1 request on an idle file gets hint 0.                                  *)
(***************************************************************************)
HintComputedWhenUserModeLocks ==
  /\ \A i \in Irps :
       (DelegatedRequestClass(i) /\ userModeLocks) => fsrtl[i][1].hint = DescribedHint(i)
  /\ LevelOneOnIdleFileHintZero

(***************************************************************************)
(* C8 amended: with DOKAN_EVENT_FILELOCK_USER_MODE not set (the host's     *)
(* lock manager handles byte-range locks), the hint of a request-class     *)
(* request is 1 for a shared request on a file that a byte-range lock      *)
(* blocks, 0 for every other shared request, and the open-handle count for *)
(* every other request; a level 1 request on an idle file gets hint 0.     *)
(***************************************************************************)
HintComputedWhenHostLocks ==
  /\ \A i \in Irps :
       (DelegatedRequestClass(i) /\ ~userModeLocks) => fsrtl[i][1].hint = DescribedHint(i)
  /\ LevelOneOnIdleFileHintZero

\* With the flag not set, a shared request on a file with a byte-range lock
\* within its allocation got hint 1, and the dispatch has ended.
HintComputedWhenHostLocksWitness ==
  \E i \in Irps :
    /\ ~userModeLocks
    /\ DelegatedRequestClass(i)
    /\ GenericSharedRequest(irp[i])
    /\ ~NodeOf(i).isDirectory
    /\ NodeOf(i).FileLock = "withinAllocation"
    /\ NodeOf(i).FileCount = 2
    /\ fsrtl[i][1].hint = 1
    /\ pc[i] = "done"

(***************************************************************************)
(* C9 as stated: with DOKAN_EVENT_FILELOCK_USER_MODE not set, the hint of  *)
(* every request-class request is 0.                                       *)
(***************************************************************************)
HintZeroWhenHostLocks ==
  \A i \in Irps :
    (DelegatedRequestClass(i) /\ ~userModeLocks) => fsrtl[i][1].hint = 0

(***************************************************************************)
(* C9 amended: with DOKAN_EVENT_FILELOCK_USER_MODE set (byte-range locks   *)
(* are left to the user-mode client), the hint of every request-class      *)
(* request is 0, whatever the Node's open-handle count and byte-range      *)
(* locks.                                                                  *)
(***************************************************************************)
HintZeroWhenUserModeLocks ==
  \A i \in Irps :
    (DelegatedRequestClass(i) /\ userModeLocks) => fsrtl[i][1].hint = 0

\* With the flag set, a level 1 request on a file with two open handles and
\* a byte-range lock got hint 0.
HintZeroWhenUserModeLocksWitness ==
  \E i \in Irps :
    /\ userModeLocks
    /\ DelegatedRequestClass(i)
    /\ irp[i].code = "FSCTL_REQUEST_OPLOCK_LEVEL_1"
    /\ NodeOf(i).FileCount = 2
    /\ NodeOf(i).FileLock = "withinAllocation"
    /\ fsrtl[i][1].hint = 0


(***************************************************************************)
(* Vocabulary of the keepalive properties.                                 *)
(***************************************************************************)
\* IRP i is a keepalive activation through a well-formed handle of the
\* keepalive file.
ValidKeepaliveIrp(i) ==
  IsKeepaliveIrp(i) /\ irp[i].chain = "ok" /\ NodeOf(i).IsKeepalive

\* IRP i activated the keepalive of the volume and its dispatch has ended.
Activated(i) ==
  ValidKeepaliveIrp(i) /\ pc[i] = "done" /\ status[i] = "STATUS_SUCCESS"

(***************************************************************************)
(* C11: with the IRPs dispatched one after the other, once an activation   *)
(* through handle A has succeeded, A's flag and the Vcb's flag are TRUE    *)
(* and stay TRUE; an activation through a distinct handle B takes no lock, *)
(* returns STATUS_INVALID_PARAMETER and leaves B's flag FALSE; a repeated  *)
(* activation through A returns STATUS_SUCCESS and no other handle's flag  *)
(* is set.                                                                 *)
(***************************************************************************)
KeepaliveSequentialActivation ==
  \A i, j \in Irps :
    (i # j /\ Activated(i) /\ ValidKeepaliveIrp(j)) =>
      /\ vcbIsKeepaliveActive
      /\ ccbIsKeepaliveActive[irp[i].ccb]
      /\ \A c \in Ccbs \ {irp[i].ccb} : ~ccbIsKeepaliveActive[c]
      /\ IF irp[j].ccb = irp[i].ccb
           THEN Returned(j) => status[j] = "STATUS_SUCCESS"
           ELSE /\ lockLog[j] = <<>>
                /\ Returned(j) => status[j] = "STATUS_INVALID_PARAMETER"

\* Both dispatches have ended: handle A activated the keepalive, then handle
\* B was refused and its flag is still FALSE.
KeepaliveSequentialActivationWitness ==
  \E i, j \in Irps :
    /\ Activated(i) /\ irp[i].ccb = "A"
    /\ ValidKeepaliveIrp(j) /\ irp[j].ccb = "B"
    /\ pc[j] = "done"
    /\ status[j] = "STATUS_INVALID_PARAMETER"
    /\ completions[j] = <<[by |-> "dispatcher", status |-> "STATUS_INVALID_PARAMETER"]>>
    /\ vcbIsKeepaliveActive /\ ccbIsKeepaliveActive["A"] /\ ~ccbIsKeepaliveActive["B"]


(***************************************************************************)
(* Vocabulary of the dispatcher properties.                                *)
(***************************************************************************)
\* IRP i is a user file-system request: DokanUserFsRequest handles it.
IsUserFsIrp(i) == irp[i] # NoIrp /\ irp[i].minor = "IRP_MN_USER_FS_REQUEST"

\* The handling of IRP i has touched nothing outside its own locals: no
\* lock, no collaborator, no keepalive flag.
TouchedNothing(i) ==
  /\ lockLog[i] = <<>>
  /\ fsrtl[i] = <<>>
  /\ notify[i] = <<>>
  /\ cleanups = 0
  /\ ~vcbIsKeepaliveActive
  /\ \A c \in Ccbs : ~ccbIsKeepaliveActive[c]
  /\ vcbResource = FreeResource
  /\ \A f \in Fcbs : fcbResource[f] = FreeResource

(***************************************************************************)
(* C12 as stated: a user file-system request of any code whose identity    *)
(* chain has a missing or mistyped link returns STATUS_INVALID_PARAMETER.  *)
(***************************************************************************)
BrokenChainInvalidParameter ==
  \A i \in Irps :
    (IsUserFsIrp(i) /\ irp[i].chain # "ok" /\ Returned(i)) =>
      status[i] = "STATUS_INVALID_PARAMETER"

(***************************************************************************)
(* C12 amended: DokanUserFsRequest routes by code first and each handler   *)
(* resolves the identity chain itself.  A keepalive, notification or       *)
(* oplock request with a missing or mistyped link takes no lock, reaches   *)
(* no collaborator and changes no flag; it returns                         *)
(* STATUS_INVALID_PARAMETER, except that a notification with a short input *)
(* returns STATUS_BUFFER_TOO_SMALL.  The lock-volume, unlock-volume,       *)
(* is-volume-mounted, reparse and unknown codes never read the chain and   *)
(* return their fixed status.                                              *)
(***************************************************************************)
BrokenChainRejectedByHandler ==
  \A i \in Irps :
    (IsUserFsIrp(i) /\ irp[i].chain # "ok") =>
      /\ TouchedNothing(i)
      /\ Returned(i) =>
           status[i] =
             IF irp[i].code \in {"FSCTL_LOCK_VOLUME", "FSCTL_UNLOCK_VOLUME",
                                 "FSCTL_IS_VOLUME_MOUNTED"}
               THEN "STATUS_SUCCESS"
             ELSE IF irp[i].code = "FSCTL_GET_REPARSE_POINT" THEN "STATUS_NOT_A_REPARSE_POINT"
             ELSE IF irp[i].code = "FSCTL_UNKNOWN" THEN "STATUS_INVALID_DEVICE_REQUEST"
             ELSE IF irp[i].code = "FSCTL_NOTIFY_PATH" /\ irp[i].payload = "short"
               THEN "STATUS_BUFFER_TOO_SMALL"
             ELSE "STATUS_INVALID_PARAMETER"

\* A notification whose Ccb has no Fcb has been completed with
\* STATUS_INVALID_PARAMETER.
BrokenChainRejectedByHandlerWitness ==
  \E i \in Irps :
    /\ IsUserFsIrp(i)
    /\ irp[i].code = "FSCTL_NOTIFY_PATH" /\ irp[i].chain = "noFcb" /\ irp[i].payload = "ok"
    /\ pc[i] = "done"
    /\ completions[i] = <<[by |-> "dispatcher", status |-> "STATUS_INVALID_PARAMETER"]>>
    /\ TouchedNothing(i)


(***************************************************************************)
(* C13: a lock-volume, unlock-volume or is-volume-mounted request returns  *)
(* STATUS_SUCCESS, a reparse query STATUS_NOT_A_REPARSE_POINT and a code   *)
(* outside the switch STATUS_INVALID_DEVICE_REQUEST; the request takes no  *)
(* lock, reaches no collaborator, changes no Node, Ccb or Vcb state, and   *)
(* the dispatcher completes it exactly once with that status.              *)
(***************************************************************************)
StatelessRoutesAnswered ==
  \A i \in Irps :
    (IsUserFsIrp(i) /\ irp[i].code \in StatelessCodes) =>
      /\ TouchedNothing(i)
      /\ fcb = [f \in Fcbs |-> IF f = FcbOf(i) THEN NodeOf(i) ELSE PlainFile]
      /\ pc[i] \in {"dispatch", "complete", "done"}
      /\ Returned(i) =>
           status[i] =
             CASE irp[i].code \in {"FSCTL_LOCK_VOLUME", "FSCTL_UNLOCK_VOLUME",
                                   "FSCTL_IS_VOLUME_MOUNTED"} -> "STATUS_SUCCESS"
               [] irp[i].code = "FSCTL_GET_REPARSE_POINT" -> "STATUS_NOT_A_REPARSE_POINT"
               [] OTHER -> "STATUS_INVALID_DEVICE_REQUEST"
      /\ completions[i] =
           IF pc[i] = "done" THEN <<[by |-> "dispatcher", status |-> status[i]]>> ELSE <<>>

\* A request with a code outside the switch has been completed with
\* STATUS_INVALID_DEVICE_REQUEST.
StatelessRoutesAnsweredWitness ==
  \E i \in Irps :
    /\ IsUserFsIrp(i) /\ irp[i].code = "FSCTL_UNKNOWN"
    /\ pc[i] = "done"
    /\ completions[i] = <<[by |-> "dispatcher", status |-> "STATUS_INVALID_DEVICE_REQUEST"]>>
    /\ TouchedNothing(i)


(***************************************************************************)
(* C14: a notification whose input is shorter than                         *)
(* DOKAN_NOTIFY_PATH_INTERMEDIATE returns STATUS_BUFFER_TOO_SMALL, whatever *)
(* its identity chain; the Fcb is never locked and                         *)
(* DokanNotifyReportChange0 is never called.                               *)
(***************************************************************************)
ShortNotifyRejected ==
  \A i \in Irps :
    (IsUserFsIrp(i) /\ irp[i].code = "FSCTL_NOTIFY_PATH" /\ irp[i].payload = "short") =>
      /\ lockLog[i] = <<>>
      /\ \A f \in Fcbs : fcbResource[f] = FreeResource
      /\ notify[i] = <<>>
      /\ cleanups = 0
      /\ Returned(i) => status[i] = "STATUS_BUFFER_TOO_SMALL"

\* A short notification through a well-formed handle has been completed
\* with STATUS_BUFFER_TOO_SMALL.
ShortNotifyRejectedWitness ==
  \E i \in Irps :
    /\ IsUserFsIrp(i) /\ irp[i].code = "FSCTL_NOTIFY_PATH"
    /\ irp[i].payload = "short" /\ irp[i].chain = "ok"
    /\ pc[i] = "done"
    /\ completions[i] = <<[by |-> "dispatcher", status |-> "STATUS_BUFFER_TOO_SMALL"]>>
    /\ lockLog[i] = <<>> /\ notify[i] = <<>>

(***************************************************************************)
(* Vocabulary of the notification properties.                              *)
(***************************************************************************)
\* IRP i is a notification that passes the checks before the lock.
ValidNotifyIrp(i) ==
  /\ IsUserFsIrp(i) /\ irp[i].code = "FSCTL_NOTIFY_PATH"
  /\ irp[i].payload = "ok" /\ irp[i].chain = "ok"

(***************************************************************************)
(* C15: a valid notification locks the Fcb shared, calls                   *)
(* DokanNotifyReportChange0 once while it holds the lock, and releases the *)
(* lock whatever the call reported; when the handler has returned, the     *)
(* waiters of the Vcb have been cleaned up once if the call reported       *)
(* STATUS_OBJECT_NAME_INVALID and not at all otherwise, and the status     *)
(* returned is the status the call reported.                               *)
(***************************************************************************)
NotifyPathForwarded ==
  \A i \in Irps :
    ValidNotifyIrp(i) =>
      /\ Len(notify[i]) <= 1
      /\ \A k \in 1 .. Len(notify[i]) : notify[i][k].locked
      /\ cleanups > 0 =>
           /\ notify[i] # <<>>
           /\ notify[i][1].status = "STATUS_OBJECT_NAME_INVALID"
           /\ ~Holds(fcbResource[FcbOf(i)], i)
      /\ Returned(i) =>
           /\ lockLog[i] = <<LockEvent("acquire", "Fcb", "shared"),
                             LockEvent("release", "Fcb", "any")>>
           /\ HoldsNothing(i)
           /\ Len(notify[i]) = 1
           /\ status[i] = notify[i][1].status
           /\ cleanups = IF notify[i][1].status = "STATUS_OBJECT_NAME_INVALID" THEN 1 ELSE 0

\* The registry reported STATUS_OBJECT_NAME_INVALID: the lock is released,
\* the waiters are cleaned up and the request is completed with that status.
NotifyPathForwardedWitness ==
  \E i \in Irps :
    /\ ValidNotifyIrp(i)
    /\ pc[i] = "done"
    /\ notify[i] = <<[status |-> "STATUS_OBJECT_NAME_INVALID", locked |-> TRUE]>>
    /\ cleanups = 1
    /\ HoldsNothing(i)
    /\ completions[i] = <<[by |-> "dispatcher", status |-> "STATUS_OBJECT_NAME_INVALID"]>>


(***************************************************************************)
(* Vocabulary of the mount properties.                                     *)
(***************************************************************************)
\* IRP i is a mount event for a device whose extension is a DCB.
IsMountIrp(i) ==
  irp[i] # NoIrp /\ irp[i].minor = "IRP_MN_MOUNT_VOLUME" /\ irp[i].extension = "ok"

\* The calls DokanMountVolume made for IRP i, by name.
CallsOf(i) == { mountLog[i][k].call : k \in 1 .. Len(mountLog[i]) }

\* The mount-table entries that reference the Volume device thread i created.
EntriesOf(i) ==
  { d \in MountDevices : mountEntry[d] # NoEntry /\ mountEntry[d].VolumeDeviceObject = i }

(***************************************************************************)
(* C16: a mount event for a MountDevice that is marked delete-pending      *)
(* returns STATUS_DEVICE_REMOVED and changes nothing: no Volume device is  *)
(* created, dcb->Vcb and the device's mount-table entry stay as they were, *)
(* the DCB's resource is never taken and no garbage collector or check     *)
(* thread is started; so for every one of several such events.             *)
(***************************************************************************)
DeletePendingMountRefused ==
  \A i \in Irps :
    (IsMountIrp(i) /\ dcb[DcbOf(i)].deletePending) =>
      /\ pc[i] \in {"dispatch", "complete", "done"}
      /\ Returned(i) => status[i] = "STATUS_DEVICE_REMOVED"
      /\ volDeviceObject[i] = NoDevice
      /\ mountLog[i] = <<>>
      /\ lockLog[i] = <<>>
      /\ dcbVcb[DcbOf(i)] = NoVcb
      /\ mountEntry[DcbOf(i)] = PendingEntry(dcb[DcbOf(i)].SessionId)
      /\ dcbResource[DcbOf(i)] = FreeResource

\* Two mount events for the device that is being removed have both been
\* completed with STATUS_DEVICE_REMOVED.
DeletePendingMountRefusedWitness ==
  \E i, j \in Irps :
    /\ i # j
    /\ IsMountIrp(i) /\ IsMountIrp(j)
    /\ DcbOf(i) = DcbOf(j) /\ dcb[DcbOf(i)].deletePending
    /\ pc[i] = "done" /\ pc[j] = "done"
    /\ completions[i] = <<[by |-> "dispatcher", status |-> "STATUS_DEVICE_REMOVED"]>>
    /\ completions[j] = <<[by |-> "dispatcher", status |-> "STATUS_DEVICE_REMOVED"]>>
    /\ dcbVcb[DcbOf(i)] = NoVcb


(***************************************************************************)
(* Vocabulary of the publish step.                                         *)
(***************************************************************************)
\* The calls of DokanMountVolume that come after the publish step.
CallsAfterPublish ==
  {"DokanUpdateTimeout", "DokanStartCheckThread", "DokanQueryAutoMount",
   "DokanSendAutoMount(FALSE)", "DokanSendVolumeArrivalNotification",
   "DokanSendAutoMount(TRUE)", "DokanCreateMountPoint", "DokanRegisterUncProvider"}

\* The Volume device of mount IRP i was created, and the mount table has no
\* entry of the device's name and session.
CreatedButNoEntry(i) ==
  /\ IsMountIrp(i)
  /\ volDeviceObject[i] # NoDevice
  /\ \/ mountEntry[DcbOf(i)] = NoEntry
     \/ mountEntry[DcbOf(i)].SessionId # dcb[DcbOf(i)].SessionId

(***************************************************************************)
(* C17: when the Volume device has been created and the mount table holds  *)
(* no entry of the device's name and session, DokanMountVolume returns     *)
(* STATUS_DEVICE_REMOVED: no mount-table entry references the new Volume   *)
(* device, the DCB's resource was taken once and is released, and none of  *)
(* the later steps ran (no timeout refresh, no check thread, no mount      *)
(* manager call, no mount point, no UNC provider).                         *)
(***************************************************************************)
NoEntryMountFails ==
  \A i \in Irps :
    CreatedButNoEntry(i) =>
      /\ pc[i] \in {"mv_initVcb", "mv_lockDcb", "mv_publish", "complete", "done"}
      /\ EntriesOf(i) = {}
      /\ CallsOf(i) \cap CallsAfterPublish = {}
      /\ Returned(i) =>
           /\ status[i] = "STATUS_DEVICE_REMOVED"
           /\ lockLog[i] = <<LockEvent("acquire", "Dcb", "exclusive"),
                             LockEvent("release", "Dcb", "any")>>
           /\ dcbResource[DcbOf(i)] = FreeResource
           /\ mountManagerLock = FreeResource

\* The mount of a network device whose entry belongs to another session has
\* been completed with STATUS_DEVICE_REMOVED.
NoEntryMountFailsWitness ==
  \E i \in Irps :
    /\ CreatedButNoEntry(i)
    /\ IsNetworkFileSystem(DcbOf(i))
    /\ mountEntry[DcbOf(i)] = PendingEntry(2)
    /\ mountLog[i][1] = MountCall("IoCreateDeviceSecure", "STATUS_SUCCESS")
    /\ pc[i] = "done"
    /\ completions[i] = <<[by |-> "dispatcher", status |-> "STATUS_DEVICE_REMOVED"]>>


(***************************************************************************)
(* Vocabulary of the mount steps.                                          *)
(***************************************************************************)
\* The calls whose failure the claim says aborts the mount.
FallibleCalls ==
  {"IoCreateDevice", "IoCreateDeviceSecure", "FindMountEntry",
   "DokanSendVolumeArrivalNotification", "DokanCreateMountPoint",
   "DokanRegisterUncProvider"}

\* The calls after whose failure DokanMountVolume returns.
AbortingCalls == {"IoCreateDevice", "IoCreateDeviceSecure", "FindMountEntry"}

\* The k-th call of mount IRP i is one of `calls` and it failed.
FailedCall(i, k, calls) ==
  mountLog[i][k].call \in calls /\ ~NtSuccess(mountLog[i][k].status)

(***************************************************************************)
(* C18 as stated: when device creation, the mount-table lookup, the        *)
(* volume-arrival notification, the creation of the mount point or the     *)
(* registration of the UNC provider fails, DokanMountVolume makes no later *)
(* call and returns a failure status.                                      *)
(***************************************************************************)
EveryFailedStepAborts ==
  \A i \in Irps :
    IsMountIrp(i) =>
      \A k \in 1 .. Len(mountLog[i]) :
        FailedCall(i, k, FallibleCalls) =>
          /\ k = Len(mountLog[i])
          /\ Returned(i) => ~NtSuccess(status[i])

(***************************************************************************)
(* C18 amended: only device creation and the mount-table lookup abort the  *)
(* mount: when one of them fails DokanMountVolume makes no later call and  *)
(* returns its failure status.  A failure of the volume-arrival            *)
(* notification, of the creation of the mount point or of the registration *)
(* of the UNC provider is not acted upon: the later steps still run (the   *)
(* AutoMount state is restored and the MountManagerLock released, the      *)
(* mount point is created for a drive letter, the UNC provider is          *)
(* registered for a network device) and DokanMountVolume returns           *)
(* STATUS_SUCCESS.  It returns STATUS_SUCCESS exactly when device creation *)
(* and the lookup succeeded.                                               *)
(***************************************************************************)
OnlyCreationAndLookupAbort ==
  \A i \in Irps :
    (IsMountIrp(i) /\ ~dcb[DcbOf(i)].deletePending) =>
      /\ \A k \in 1 .. Len(mountLog[i]) :
           FailedCall(i, k, AbortingCalls) =>
             /\ k = Len(mountLog[i])
             /\ Returned(i)
             /\ status[i] = mountLog[i][k].status
      /\ (Returned(i) /\ \A k \in 1 .. Len(mountLog[i]) : ~FailedCall(i, k, AbortingCalls)) =>
           /\ status[i] = "STATUS_SUCCESS"
           /\ "FindMountEntry" \in CallsOf(i)
           /\ "DokanStartCheckThread" \in CallsOf(i)
           /\ dcb[DcbOf(i)].UseMountManager <=>
                "DokanSendVolumeArrivalNotification" \in CallsOf(i)
           /\ IsMountPointDriveLetter(DcbOf(i)) <=> "DokanCreateMountPoint" \in CallsOf(i)
           /\ IsNetworkFileSystem(DcbOf(i)) <=> "DokanRegisterUncProvider" \in CallsOf(i)
           /\ "DokanSendAutoMount(FALSE)" \in CallsOf(i) <=>
                "DokanSendAutoMount(TRUE)" \in CallsOf(i)
           /\ mountManagerLock = FreeResource
           /\ dcbResource[DcbOf(i)] = FreeResource

\* The notification, the mount point and the UNC provider all failed, and
\* the mount has been completed with STATUS_SUCCESS.
OnlyCreationAndLookupAbortWitness ==
  \E i \in Irps :
    /\ IsMountIrp(i)
    /\ pc[i] = "done"
    /\ completions[i] = <<[by |-> "dispatcher", status |-> "STATUS_SUCCESS"]>>
    /\ \E k \in 1 .. Len(mountLog[i]) :
         mountLog[i][k].call = "DokanSendVolumeArrivalNotification"
           /\ mountLog[i][k].status = "STATUS_UNSUCCESSFUL"
    /\ \E k \in 1 .. Len(mountLog[i]) :
         mountLog[i][k] = MountCall("DokanCreateMountPoint", "STATUS_UNSUCCESSFUL")
    /\ \E k \in 1 .. Len(mountLog[i]) :
         mountLog[i][k] = MountCall("DokanRegisterUncProvider", "STATUS_UNSUCCESSFUL")


\* The calls that would undo the creation of a Volume device.
UnwindingCalls == {"DokanStopFcbGarbageCollectorThread", "IoDeleteDevice"}

(***************************************************************************)
(* C19: when DokanMountVolume has created the Volume device and fails with *)
(* STATUS_DEVICE_REMOVED because no mount entry matches, nothing done      *)
(* before is undone: Dcb->Vcb still refers to the new VCB, the device has  *)
(* DO_DIRECT_IO set, DO_DEVICE_INITIALIZING cleared and VCB_MOUNTED set,   *)
(* and the FCB garbage collector that was started for it has not been      *)
(* stopped; no mount entry refers to the device.                           *)
(***************************************************************************)
FailedPublishUndoesNothing ==
  \A i \in Irps :
    (CreatedButNoEntry(i) /\ Returned(i)) =>
      /\ status[i] = "STATUS_DEVICE_REMOVED"
      /\ dcbVcb[DcbOf(i)] = i
      /\ volDeviceObject[i] = InitializedDevice(CreatedDevice(DcbOf(i)), DcbOf(i))
      /\ "DO_DIRECT_IO" \in volDeviceObject[i].Flags
      /\ "DO_DEVICE_INITIALIZING" \notin volDeviceObject[i].Flags
      /\ "VCB_MOUNTED" \in volDeviceObject[i].VcbFlags
      /\ dcb[DcbOf(i)].FcbGarbageCollectionIntervalMs # 0 <=>
           "DokanStartFcbGarbageCollector" \in CallsOf(i)
      /\ CallsOf(i) \cap UnwindingCalls = {}
      /\ EntriesOf(i) = {}

\* A mount that started the garbage collector has been completed with
\* STATUS_DEVICE_REMOVED at the publish step.
FailedPublishUndoesNothingWitness ==
  \E i \in Irps :
    /\ CreatedButNoEntry(i)
    /\ pc[i] = "done"
    /\ completions[i] = <<[by |-> "dispatcher", status |-> "STATUS_DEVICE_REMOVED"]>>
    /\ "DokanStartFcbGarbageCollector" \in CallsOf(i)
    /\ mountLog[i][Len(mountLog[i])] = MountCall("FindMountEntry", "STATUS_DEVICE_REMOVED")
    /\ dcbVcb[DcbOf(i)] = i


(***************************************************************************)
(* Vocabulary of the AutoMount bracket (lines 714-745).                    *)
(***************************************************************************)
\* Mount IRP i is for a device registered with the mount manager whose
\* mount point is not a drive letter.
IsPathMount(i) ==
  /\ IsMountIrp(i)
  /\ dcb[DcbOf(i)].UseMountManager
  /\ ~IsMountPointDriveLetter(DcbOf(i))

\* The entries of the given call in the call log of mount IRP i.
LoggedCalls(i, call) ==
  {mountLog[i][k] : k \in {n \in 1 .. Len(mountLog[i]) : mountLog[i][n].call = call}}

\* The AutoMount state of the mount manager when mount IRP i queried it,
\* and whether the query worked.
QueriedAutoMount(i) == (CHOOSE e \in LoggedCalls(i, "DokanQueryAutoMount") : TRUE).autoMount

QueryWorked(i) ==
  (CHOOSE e \in LoggedCalls(i, "DokanQueryAutoMount") : TRUE).status = "STATUS_SUCCESS"

\* This step is mount IRP i releasing the MountManagerLock.
LeavesAutoMountBracket(i) ==
  /\ IsPathMount(i)
  /\ Holds(mountManagerLock, i)
  /\ ~Holds(mountManagerLock', i)

\* The notification of a path mount is sent with AutoMount disabled and the
\* MountManagerLock held, and a mount that has returned does not hold the
\* lock.
NotifiedWhileSuspended ==
  \A i \in Irps :
    IsPathMount(i) =>
      /\ \A e \in LoggedCalls(i, "DokanSendVolumeArrivalNotification") :
           ~e.autoMount /\ e.locked
      /\ Returned(i) =>
           /\ ~Holds(mountManagerLock, i)
           /\ CountOf(lockLog[i], Len(lockLog[i]), "acquire", "MountManager")
                = CountOf(lockLog[i], Len(lockLog[i]), "release", "MountManager")
           /\ LoggedCalls(i, "DokanSendVolumeArrivalNotification") # {} =>
                CountOf(lockLog[i], Len(lockLog[i]), "acquire", "MountManager") = 1

(***************************************************************************)
(* C20 as stated: for a device that uses the mount manager and is mounted  *)
(* on a path, the volume-arrival notification is sent only while AutoMount *)
(* is disabled, the MountManagerLock is released on every path, and when   *)
(* the mount leaves the bracket the AutoMount state equals the state it    *)
(* had when the mount entered it, whatever the query and the notification  *)
(* returned and however many mounts run.                                   *)
(***************************************************************************)
AutoMountStateRestored ==
  /\ []NotifiedWhileSuspended
  /\ [][\A i \in Irps :
          LeavesAutoMountBracket(i) => autoMount' = QueriedAutoMount(i)]_vars

(***************************************************************************)
(* C20 amended: for a device that uses the mount manager and is mounted on *)
(* a path, the volume-arrival notification is sent only while AutoMount is *)
(* disabled and the MountManagerLock is held, and the lock is released on  *)
(* every path.  When the mount leaves the bracket the AutoMount state      *)
(* equals the state it had when the mount entered it if the query of that  *)
(* state succeeded; if the query failed AutoMount is left enabled,         *)
(* whatever it was.  This holds also when the notification fails and when  *)
(* several mounts run concurrently.                                        *)
(***************************************************************************)
AutoMountRestoredWhenQueried ==
  /\ []NotifiedWhileSuspended
  /\ [][\A i \in Irps :
          LeavesAutoMountBracket(i) =>
            autoMount' = IF QueryWorked(i) THEN QueriedAutoMount(i) ELSE TRUE]_vars

\* Two path mounts have run concurrently and are complete: the query of one
\* failed while AutoMount was disabled, the notification of the other
\* failed, and AutoMount is enabled now.
AutoMountRestoredWhenQueriedWitness ==
  \E i, j \in Irps :
    /\ i # j
    /\ IsPathMount(i) /\ IsPathMount(j)
    /\ pc[i] = "done" /\ pc[j] = "done"
    /\ LoggedCalls(i, "DokanQueryAutoMount") # {}
    /\ ~QueryWorked(i) /\ ~QueriedAutoMount(i)
    /\ \E e \in LoggedCalls(j, "DokanSendVolumeArrivalNotification") :
         e.status = "STATUS_UNSUCCESSFUL"
    /\ LoggedCalls(i, "DokanSendVolumeArrivalNotification") # {}
    /\ autoMount
    /\ mountManagerLock = FreeResource


(***************************************************************************)
(* Vocabulary of the locks held across the call of the oplock package.     *)
(***************************************************************************)
\* DokanOplockRequest has just returned from FsRtlOplockFsctrl for IRP i and
\* has released nothing yet: the thread holds what it held across the call.
BackFromArbiter(i) ==
  IsOplockIrp(i) /\ pc[i] = "op_finally" /\ fsrtl[i] # <<>>

\* The Fcb resources thread i holds.
FcbsHeldBy(i) == {f \in Fcbs : Holds(fcbResource[f], i)}

(***************************************************************************)
(* C21 as stated: across the call of FsRtlOplockFsctrl the thread does not *)
(* hold the Vcb resource, and the only resource it may hold is the Fcb of  *)
(* the request, exclusively.                                               *)
(***************************************************************************)
NoVcbAcrossArbiterCall ==
  \A i \in Irps :
    BackFromArbiter(i) =>
      /\ ~Holds(vcbResource, i)
      /\ \A f \in FcbsHeldBy(i) : f = FcbOf(i) /\ fcbResource[f].exclusive = i

(***************************************************************************)
(* C21 amended: across the call of FsRtlOplockFsctrl a request-class       *)
(* thread holds the Vcb resource shared and the Fcb of the request         *)
(* exclusively; an acknowledge-class thread holds the Fcb of the request   *)
(* shared and not the Vcb; no thread holds another Fcb.  The resources are *)
(* released before DokanOplockRequest returns, so none is held while the   *)
(* oplock package keeps a pending IRP.                                     *)
(***************************************************************************)
LocksAcrossArbiterCall ==
  \A i \in Irps :
    /\ BackFromArbiter(i) =>
         /\ FcbsHeldBy(i) = {FcbOf(i)}
         /\ OplockRequestClass(irp[i]) \in {"request", "acknowledge"}
         /\ OplockRequestClass(irp[i]) = "request" =>
              /\ i \in vcbResource.shared
              /\ fcbResource[FcbOf(i)].exclusive = i
         /\ OplockRequestClass(irp[i]) = "acknowledge" =>
              /\ ~Holds(vcbResource, i)
              /\ i \in fcbResource[FcbOf(i)].shared
              /\ fcbResource[FcbOf(i)].exclusive = 0
    /\ (IsOplockIrp(i) /\ Returned(i)) => HoldsNothing(i)

\* A request-class thread is back from the oplock package holding the Vcb
\* shared and its Fcb exclusively, while the package keeps the pending IRP of
\* an acknowledge-class thread that has returned and holds nothing.
LocksAcrossArbiterCallWitness ==
  \E i, j \in Irps :
    /\ i # j
    /\ BackFromArbiter(i) /\ OplockRequestClass(irp[i]) = "request"
    /\ i \in vcbResource.shared /\ fcbResource[FcbOf(i)].exclusive = i
    /\ IsOplockIrp(j) /\ OplockRequestClass(irp[j]) = "acknowledge"
    /\ fsrtl[j] # <<>>
    /\ Returned(j) /\ status[j] = "STATUS_PENDING"
    /\ lockLog[j] = <<LockEvent("acquire", "Fcb", "shared"), LockEvent("release", "Fcb", "any")>>
    /\ HoldsNothing(j)


(***************************************************************************)
(* Vocabulary of dcb->Resource in DokanMountVolume.                        *)
(***************************************************************************)
\* The calls mount IRP i makes in this step.
CallsMadeNow(i) ==
  {mountLog'[i][k].call : k \in (Len(mountLog[i]) + 1) .. Len(mountLog'[i])}

\* Mount IRP i holds the resource of its device exclusively.
HoldsDcbExclusively(i) == dcbResource[DcbOf(i)].exclusive = i

\* The acquisitions and releases of dcb->Resource by mount IRP i alternate,
\* starting with an exclusive acquisition, and a mount that has returned has
\* released what it acquired and holds the resource of no device.
DcbResourceBalanced(i) ==
  LET log == SelectSeq(lockLog[i], LAMBDA e : e.res = "Dcb") IN
    /\ \A n \in 1 .. Len(log) :
         log[n] = IF n % 2 = 1 THEN LockEvent("acquire", "Dcb", "exclusive")
                               ELSE LockEvent("release", "Dcb", "any")
    /\ HoldsDcbExclusively(i) <=> Len(log) % 2 = 1
    /\ Returned(i) =>
         /\ Len(log) % 2 = 0
         /\ \A d \in MountDevices : ~Holds(dcbResource[d], i)

(***************************************************************************)
(* C22: DokanMountVolume calls FindMountEntry, writes the entry's          *)
(* VolumeDeviceObject and MountOptions, and calls DokanUpdateTimeout only  *)
(* while the thread holds dcb->Resource exclusively; every acquisition of  *)
(* dcb->Resource is followed by exactly one release on every path, and the *)
(* function never returns holding it.                                      *)
(***************************************************************************)
MountTableUnderDcbResource ==
  /\ [](\A i \in Irps : IsMountIrp(i) => DcbResourceBalanced(i))
  /\ [][\A i \in Irps :
          IsMountIrp(i) =>
            /\ CallsMadeNow(i) \cap {"FindMountEntry", "DokanUpdateTimeout"} # {} =>
                 HoldsDcbExclusively(i)
            /\ mountEntry'[DcbOf(i)] # mountEntry[DcbOf(i)] =>
                 /\ HoldsDcbExclusively(i)
                 /\ "FindMountEntry" \in CallsMadeNow(i)]_vars

\* A mount has returned after the lookup found its entry and the timeout was
\* refreshed, with two acquisitions and two releases of dcb->Resource.
MountTableUnderDcbResourceWitness ==
  \E i \in Irps :
    /\ IsMountIrp(i)
    /\ pc[i] = "done"
    /\ EntriesOf(i) # {}
    /\ {"FindMountEntry", "DokanUpdateTimeout"} \subseteq CallsOf(i)
    /\ Len(SelectSeq(lockLog[i], LAMBDA e : e.res = "Dcb")) = 4
    /\ dcbResource[DcbOf(i)] = FreeResource


(***************************************************************************)
(* Vocabulary of the lock modes of the request classes.                    *)
(***************************************************************************)
\* The classes as the specification lists them.
AcknowledgeClassIrp(i) ==
  /\ IsOplockIrp(i)
  /\ \/ irp[i].code \in LegacyAckCodes
     \/ /\ irp[i].code = "FSCTL_REQUEST_OPLOCK"
        /\ "REQUEST_OPLOCK_INPUT_FLAG_ACK" \in irp[i].Flags
        /\ "REQUEST_OPLOCK_INPUT_FLAG_REQUEST" \notin irp[i].Flags

RequestClassIrp(i) ==
  /\ IsOplockIrp(i)
  /\ \/ irp[i].code \in LegacyRequestCodes
     \/ /\ irp[i].code = "FSCTL_REQUEST_OPLOCK"
        /\ "REQUEST_OPLOCK_INPUT_FLAG_REQUEST" \in irp[i].Flags

\* Thread i is at or just after its call of FsRtlOplockFsctrl, holding what
\* it holds across the call.
InArbiterCall(i) ==
  \/ BackFromArbiter(i)
  \/ IsOplockIrp(i) /\ pc[i] = "op_body" /\ ~DeletePendingConflict(irp[i], fcb[FcbOf(i)])

\* Thread i is inside the try block of DokanOplockRequest, past the branch
\* that takes the resources.
PastLocking(i) == IsOplockIrp(i) /\ pc[i] \in {"op_body", "op_finally"}

\* s is an initial part of t.
IsPrefix(s, t) == Len(s) <= Len(t) /\ \A k \in 1 .. Len(s) : s[k] = t[k]

(***************************************************************************)
(* C23: an acknowledge-class oplock request acquires the Fcb shared and    *)
(* never the Vcb; a request-class request acquires the Vcb shared and then *)
(* the Fcb exclusively; a request that passed the validation has done so   *)
(* when it leaves the locking branch.  So two request-class threads are    *)
(* never in the call of FsRtlOplockFsctrl for the same Node at once, nor a *)
(* request-class and an acknowledge-class thread.                          *)
(***************************************************************************)
LockModeByClass ==
  /\ \A i \in Irps :
       /\ AcknowledgeClassIrp(i) =>
            /\ IsPrefix(Acquisitions(lockLog[i]), <<LockEvent("acquire", "Fcb", "shared")>>)
            /\ ~Holds(vcbResource, i)
            /\ PastLocking(i) =>
                 Acquisitions(lockLog[i]) = <<LockEvent("acquire", "Fcb", "shared")>>
       /\ RequestClassIrp(i) =>
            /\ IsPrefix(Acquisitions(lockLog[i]),
                        <<LockEvent("acquire", "Vcb", "shared"),
                          LockEvent("acquire", "Fcb", "exclusive")>>)
            /\ PastLocking(i) =>
                 Acquisitions(lockLog[i]) = <<LockEvent("acquire", "Vcb", "shared"),
                                              LockEvent("acquire", "Fcb", "exclusive")>>
  /\ \A i, j \in Irps :
       (i # j /\ InArbiterCall(i) /\ InArbiterCall(j) /\ FcbOf(i) = FcbOf(j)) =>
         (AcknowledgeClassIrp(i) /\ AcknowledgeClassIrp(j))

\* A request-class thread is in the call for Node f1 while another
\* request-class thread holds the Vcb and waits for the Fcb of the same Node;
\* or while an acknowledge-class thread waits for it.
LockModeByClassWitness ==
  \E i, j \in Irps :
    /\ i # j
    /\ RequestClassIrp(i) /\ InArbiterCall(i)
    /\ FcbOf(j) = FcbOf(i)
    /\ \/ RequestClassIrp(j) /\ pc[j] = "op_lockFcb" /\ Holds(vcbResource, j)
       \/ AcknowledgeClassIrp(j) /\ pc[j] = "op_try"


(***************************************************************************)
(* Vocabulary of the order of the mount steps.                             *)
(***************************************************************************)
\* The places of a call in the call log of mount IRP i.
PlacesOf(i, call) == {k \in 1 .. Len(mountLog[i]) : mountLog[i][k].call = call}

\* Every `later` call of mount IRP i comes after a `sooner` call.
ComesAfter(i, later, sooner) ==
  \A k \in PlacesOf(i, later) : \E n \in PlacesOf(i, sooner) : n < k

(***************************************************************************)
(* C24: a Volume device that a mount entry refers to has VCB_MOUNTED set   *)
(* and DO_DEVICE_INITIALIZING cleared; DokanStartCheckThread is called     *)
(* only after the entry was found and attached and DokanUpdateTimeout was  *)
(* called; the volume-arrival notification and DokanCreateMountPoint come  *)
(* only after DokanStartCheckThread; and the FCB garbage collector is      *)
(* started when and only when FcbGarbageCollectionIntervalMs is not 0.     *)
(***************************************************************************)
MountStepsInOrder ==
  \A i \in Irps :
    IsMountIrp(i) =>
      /\ \A d \in EntriesOf(i) :
           /\ d = DcbOf(i)
           /\ "VCB_MOUNTED" \in volDeviceObject[i].VcbFlags
           /\ "DO_DEVICE_INITIALIZING" \notin volDeviceObject[i].Flags
           /\ "DO_DIRECT_IO" \in volDeviceObject[i].Flags
      /\ ComesAfter(i, "DokanUpdateTimeout", "FindMountEntry")
      /\ PlacesOf(i, "DokanUpdateTimeout") # {} => EntriesOf(i) # {}
      /\ ComesAfter(i, "DokanStartCheckThread", "DokanUpdateTimeout")
      /\ ComesAfter(i, "DokanSendVolumeArrivalNotification", "DokanStartCheckThread")
      /\ ComesAfter(i, "DokanCreateMountPoint", "DokanStartCheckThread")
      /\ ComesAfter(i, "DokanRegisterUncProvider", "DokanStartCheckThread")
      /\ ComesAfter(i, "FindMountEntry", "IoCreateDevice")
           \/ ComesAfter(i, "FindMountEntry", "IoCreateDeviceSecure")
      /\ volDeviceObject[i] \notin {NoDevice, CreatedDevice(DcbOf(i))} =>
           (dcb[DcbOf(i)].FcbGarbageCollectionIntervalMs # 0
              <=> PlacesOf(i, "DokanStartFcbGarbageCollector") # {})
      /\ Cardinality(PlacesOf(i, "DokanStartFcbGarbageCollector")) <= 1
      /\ (Returned(i) /\ status[i] = "STATUS_SUCCESS") =>
           /\ EntriesOf(i) = {DcbOf(i)}
           /\ PlacesOf(i, "DokanStartCheckThread") # {}

\* A mount through the mount manager on a drive letter, with a garbage
\* collector, has been completed with STATUS_SUCCESS: the notification and
\* the mount point follow the check thread in its call log.
MountStepsInOrderWitness ==
  \E i \in Irps :
    /\ IsMountIrp(i)
    /\ pc[i] = "done"
    /\ status[i] = "STATUS_SUCCESS"
    /\ EntriesOf(i) = {DcbOf(i)}
    /\ {"DokanStartFcbGarbageCollector", "DokanStartCheckThread",
        "DokanSendVolumeArrivalNotification", "DokanCreateMountPoint"} \subseteq CallsOf(i)
    /\ "VCB_MOUNTED" \in volDeviceObject[i].VcbFlags


(***************************************************************************)
(* Vocabulary of termination.                                              *)
(***************************************************************************)
\* Thread i has finished and holds no resource.
Finished(i) == pc[i] = "done" /\ HoldsNothing(i)

\* Thread i waits for a resource another thread holds.
WaitsForLock(i) ==
  \/ /\ pc[i] = "op_try" /\ OplockRequestClass(irp[i]) = "request"
     /\ ~CanLockRO(vcbResource)
  \/ /\ pc[i] = "op_try" /\ OplockRequestClass(irp[i]) = "acknowledge"
     /\ ~CanLockRO(fcbResource[FcbOf(i)])
  \/ pc[i] \in {"op_lockFcb", "ka_lock", "sc_lockFcb"} /\ ~CanLockRW(fcbResource[FcbOf(i)])
  \/ pc[i] = "np_lock" /\ ~CanLockRO(fcbResource[FcbOf(i)])
  \/ /\ pc[i] = "dispatch" /\ irp[i].minor = "VCB_STRUCTURAL_CHANGE"
     /\ ~CanLockRW(vcbResource)

(***************************************************************************)
(* C25: with oplock requests of both classes, a keepalive activation, a    *)
(* path notification and a structural change of the volume running         *)
(* concurrently, some thread can always take a step until all have         *)
(* finished, and eventually every thread has returned, its IRP has been    *)
(* handed back, and every Vcb and Fcb resource is free.                    *)
(***************************************************************************)
EveryRequestReturns ==
  /\ []((\E i \in Irps : ~Finished(i)) => \E i \in Irps : ENABLED ThreadStep(i))
  /\ <>[](/\ \A i \in Irps : Finished(i)
          /\ vcbResource = FreeResource
          /\ \A f \in Fcbs : fcbResource[f] = FreeResource)

\* A request-class thread holds the Vcb shared and waits for the Fcb that a
\* keepalive activation or an acknowledgement holds; or the structural
\* change waits for the Vcb that a request-class thread holds.
EveryRequestReturnsWitness ==
  \E i, j \in Irps :
    /\ i # j
    /\ WaitsForLock(i)
    /\ \/ /\ pc[i] = "op_lockFcb" /\ Holds(vcbResource, i)
          /\ Holds(fcbResource[FcbOf(i)], j)
       \/ /\ irp[i].minor = "VCB_STRUCTURAL_CHANGE"
          /\ Holds(vcbResource, j) /\ IsOplockIrp(j)

=============================================================================
